---- MODULE Spec2Model ----
(***************************************************************************)
(* State-machine model of the maze generator, the maze wall mesher, the    *)
(* SOR / sweep surface generator and the geometry file codec of the        *)
(* PyOpenGL modeler and maze game.                                         *)
(*                                                                         *)
(* Numbers.  A Python float is modelled as a fixed-point integer counting  *)
(* 1e-7 units (FxOne is 1.0).  A file is a sequence of lines, a line the   *)
(* sequence of its whitespace-separated tokens, and a token records how it *)
(* is spelled: an integer literal, a decimal literal (its value in 1e-6    *)
(* units, what ":.6f" prints) or a word.                                   *)
(***************************************************************************)
EXTENDS Integers, Sequences, FiniteSets, Bags, TLC

VARIABLES
    tool,        \* which program is running: "maze", "modeler", "haeksim",
                 \* "files" (a file found on disk is opened), "game", "weather", "render", "window", "walk" or "jump"
    req,         \* Maze(width, height): the requested <<width, height>>
    width,       \* Maze.width
    height,      \* Maze.height
    wall_thickness, \* Maze.wall_thickness
    wall_height, \* Maze.wall_height
    grid,        \* Maze.grid, grid[y][x], rows 0..height-1, columns 0..width-1
    stack,       \* generate(): the DFS stack of <<x, y>>
    mpc,         \* position of the maze program
    pushed,      \* history: how often generate() pushed each cell
    file,        \* the exported file: a sequence of lines
    miro,        \* the game's MiroOpenGLWidget: its maze data
    modeler,     \* the modeler's OpenGLWidget (modeler_opengl.py)
    clicks,      \* history: mouse clicks in the 2D view so far
    saved,       \* history: the widget as it was when save_model wrote the file
    haeksim,     \* the SOR modeler's OpenGLWidget (opengl_haeksim.py)
    legacy,      \* history: what the file found on disk was written from
    game,        \* the game's MiroOpenGLWidget: its player and game state
    weather,     \* the WeatherSystem (miro_weather.py)
    window       \* the game's MiroWindow (miro_ui_and_chang.py) with the
                 \* single-shot timers that have not fired yet

mazeVars == <<req, width, height, wall_thickness, wall_height, grid, stack, mpc, pushed, file, miro>>
editorVars == <<modeler, clicks, saved, haeksim, legacy>>
vars == <<tool, req, width, height, wall_thickness, wall_height, grid, stack, mpc, pushed, file, miro,
          modeler, clicks, saved, haeksim, legacy, game, weather, window>>
extraVars == <<weather, window>>

-----------------------------------------------------------------------------
(* Bounds *)

\* requested widths and heights are 1..MaxReq
MaxReq == 6

\* a modeler session has at most MaxClicks mouse clicks in the 2D view
MaxClicks == 3

\* the weather system has MaxParticles particles (4000 in the game) and is
\* followed for MaxUpdates calls of update
MaxParticles == 1
MaxUpdates == 3

\* the game widget gets a GL context at most MaxInits times
MaxInits == 2

\* the window starts at most MaxSessions games and has at most MaxPending
\* single-shot timers waiting
MaxSessions == 2
MaxPending == 2

-----------------------------------------------------------------------------
(* Maze.__init__ *)

\* a plausible slip: an even size is rounded down
OddAdjustDown(n) == IF n % 2 # 0 THEN n ELSE n - 1

\* lines 18-19
OddAdjust(n) == IF n % 2 # 0 THEN n ELSE n + 1

NewGrid(w, h) == [y \in 0..(h - 1) |-> [x \in 0..(w - 1) |-> 1]]

-----------------------------------------------------------------------------
(* Maze.generate *)

Directions == << <<0, -2>>, <<0, 2>>, <<-2, 0>>, <<2, 0>> >>

IsUnvisitedNeighbor(g, w, h, nx, ny) ==
    /\ 0 < nx /\ nx < w - 1
    /\ 0 < ny /\ ny < h - 1
    /\ g[ny][nx] = 1

\* _get_unvisited_neighbors: the list, in the order of Directions
GetUnvisitedNeighbors(g, w, h, x, y) ==
    LET cand(i) == <<x + Directions[i][1], y + Directions[i][2]>>
        F[i \in 0..4] ==
            IF i = 0 THEN <<>>
            ELSE IF IsUnvisitedNeighbor(g, w, h, cand(i)[1], cand(i)[2])
                 THEN Append(F[i - 1], cand(i))
                 ELSE F[i - 1]
    IN F[4]

SetCell(g, x, y, v) == [g EXCEPT ![y][x] = v]

\* a plausible slip: the wall between the two cells is left standing
CarveWithoutWall(g, cur, nxt) == SetCell(g, nxt[1], nxt[2], 0)

\* lines 50-52: open the wall between cur and nxt, and nxt itself
Carve(g, cur, nxt) ==
    SetCell(SetCell(g, (cur[1] + nxt[1]) \div 2, (cur[2] + nxt[2]) \div 2, 0),
            nxt[1], nxt[2], 0)

\* a plausible slip: the dead end is left on the stack
PopNothing(st) == st

\* line 56: stack.pop()
Pop(st) == SubSeq(st, 1, Len(st) - 1)

\* the first i in the order w-2, w-3, ..., 1 with grid[h-2][i] = 0, or 0
ExitColumn(g, w, h) ==
    LET cols == {i \in 1..(w - 2) : g[h - 2][i] = 0}
    IN IF cols = {} THEN 0 ELSE CHOOSE i \in cols : \A j \in cols : j <= i

\* a plausible slip: row and column of the entrance swapped
CreateEntryExitSwapped(g, w, h) ==
    LET g1 == SetCell(g, 0, 1, 0)
        c == ExitColumn(g1, w, h)
    IN IF c # 0 THEN SetCell(g1, c, h - 1, 0)
       ELSE SetCell(g1, w - 2, h - 1, 0)

\* _create_entry_exit
CreateEntryExit(g, w, h) ==
    LET g1 == SetCell(g, 1, 0, 0)
        c == ExitColumn(g1, w, h)
    IN IF c # 0 THEN SetCell(g1, c, h - 1, 0)
       ELSE SetCell(g1, w - 2, h - 1, 0)

StartCoords(n) == {2 * k + 1 : k \in 0..((n - 3) \div 2)}

\* generate(), lines 30-37: random.randint raises ValueError on an empty range
GenerateStart ==
    /\ tool = "maze"
    /\ UNCHANGED <<editorVars, game, extraVars>>
    /\ mpc = "new"
    /\ IF width < 3 \/ height < 3
       THEN /\ mpc' = "error"
            /\ UNCHANGED <<grid, stack, pushed>>
       ELSE \E sx \in StartCoords(width), sy \in StartCoords(height) :
            /\ grid' = SetCell(grid, sx, sy, 0)
            /\ stack' = << <<sx, sy>> >>
            /\ pushed' = [pushed EXCEPT ![<<sx, sy>>] = @ + 1]
            /\ mpc' = "dfs"
    /\ UNCHANGED <<tool, req, width, height, wall_thickness, wall_height, file, miro>>

\* one iteration of the while loop that finds a neighbour: carve and push
DfsPush ==
    /\ tool = "maze"
    /\ UNCHANGED <<editorVars, game, extraVars>>
    /\ mpc = "dfs"
    /\ stack # <<>>
    /\ LET cur == stack[Len(stack)]
           nbs == GetUnvisitedNeighbors(grid, width, height, cur[1], cur[2])
       IN /\ nbs # <<>>
          /\ \E i \in 1..Len(nbs) :
                LET nxt == nbs[i]
                IN /\ grid' = Carve(grid, cur, nxt)
                   /\ stack' = Append(stack, nxt)
                   /\ pushed' = [pushed EXCEPT ![nxt] = @ + 1]
    /\ UNCHANGED <<tool, req, width, height, wall_thickness, wall_height, mpc, file, miro>>

\* one iteration that finds none: pop; when the stack empties the loop ends
\* and generate() goes on to _create_entry_exit() and returns
DfsPop ==
    /\ tool = "maze"
    /\ UNCHANGED <<editorVars, game, extraVars>>
    /\ mpc = "dfs"
    /\ stack # <<>>
    /\ LET cur == stack[Len(stack)]
       IN GetUnvisitedNeighbors(grid, width, height, cur[1], cur[2]) = <<>>
    /\ stack' = Pop(stack)
    /\ IF Len(stack) = 1
       THEN /\ grid' = CreateEntryExit(grid, width, height)
            /\ mpc' = "done"
       ELSE UNCHANGED <<grid, mpc>>
    /\ UNCHANGED <<tool, req, width, height, wall_thickness, wall_height, pushed, file, miro>>


-----------------------------------------------------------------------------
(* Numbers and file tokens *)

FxOne == 10000 * 1000          \* 1.0 in 1e-7 units
FxHalf == FxOne \div 2
FxTenth == FxOne \div 10

FMax(a, b) == IF a >= b THEN a ELSE b
FMin(a, b) == IF a <= b THEN a ELSE b

\* an optional argument: None, or Some(v)
None == [some |-> FALSE]
Some(x) == [some |-> TRUE, v |-> x]

\* f"{v:.6f}": the value rounded to 1e-6 (ties to even), in 1e-6 units
Fmt6(fx) ==
    LET q == fx \div 10
        r == fx % 10
    IN IF r > 5 \/ (r = 5 /\ q % 2 = 1) THEN q + 1 ELSE q

IntTok(n) == [k |-> "i", v |-> n]       \* str(n) of an int
DecTok(m) == [k |-> "f", v |-> m]       \* a decimal literal worth m * 1e-6
WordTok(s) == [k |-> "w", s |-> s]      \* any other word

FloatTok(fx) == DecTok(Fmt6(fx))

-----------------------------------------------------------------------------
(* Maze._is_wall and Maze.export_to_dat *)

\* no neighbour is ever seen as a wall
IsWallNever(g, w, h, x, y) == FALSE

\* _is_wall, lines 95-98
IsWall(g, w, h, x, y) ==
    IF 0 <= x /\ x < w /\ 0 <= y /\ y < h THEN g[y][x] = 1 ELSE FALSE

\* add_box, lines 132-141: the eight vertices of a box
BoxVertices(x0, x1, z0, z1, ht) ==
    << <<x0, 0, z0>>, <<x1, 0, z0>>, <<x1, 0, z1>>, <<x0, 0, z1>>,
       <<x0, ht, z0>>, <<x1, ht, z0>>, <<x1, ht, z1>>, <<x0, ht, z1>> >>

\* add_box, lines 143-149: the six quads of a box whose vertices start at base
BoxFaces(base) ==
    << <<base + 0, base + 3, base + 2, base + 1>>,
       <<base + 4, base + 5, base + 6, base + 7>>,
       <<base + 0, base + 1, base + 5, base + 4>>,
       <<base + 1, base + 2, base + 6, base + 5>>,
       <<base + 2, base + 3, base + 7, base + 6>>,
       <<base + 3, base + 0, base + 4, base + 7>> >>

\* vertex_count when the b-th call of add_box starts: 8 per earlier call
VertexCountBefore(b) == 8 * (b - 1)

\* the boxes of wall cell (x, y), lines 154-193, as <<x0, x1, z0, z1>>
CellBoxes(g, w, h, x, y, thickness) ==
    LET scale == FxOne
        inset == (scale - thickness) \div 2
        offset_x == 0 - ((w * scale) \div 2)
        offset_z == 0 - ((h * scale) \div 2)
        bx == x * scale + offset_x
        bz == y * scale + offset_z
        cx0 == bx + inset
        cx1 == bx + inset + thickness
        cz0 == bz + inset
        cz1 == bz + inset + thickness
        left == IsWall(g, w, h, x - 1, y)
        right == IsWall(g, w, h, x + 1, y)
        up == IsWall(g, w, h, x, y - 1)
        down == IsWall(g, w, h, x, y + 1)
    IN IF (left \/ right) /\ ~up /\ ~down
       THEN << <<IF left THEN bx ELSE cx0,
                 IF right THEN bx + scale ELSE cx1, cz0, cz1>> >>
       ELSE IF (up \/ down) /\ ~left /\ ~right
       THEN << <<cx0, cx1, IF up THEN bz ELSE cz0,
                           IF down THEN bz + scale ELSE cz1>> >>
       ELSE << <<cx0, cx1, cz0, cz1>> >>
            \o (IF left THEN << <<bx, cx0, cz0, cz1>> >> ELSE <<>>)
            \o (IF right THEN << <<cx1, bx + scale, cz0, cz1>> >> ELSE <<>>)
            \o (IF up THEN << <<cx0, cx1, bz, cz0>> >> ELSE <<>>)
            \o (IF down THEN << <<cx0, cx1, cz1, bz + scale>> >> ELSE <<>>)

\* the loops of lines 152-193: the boxes of all wall cells, in row-major
\* order of the cells, from cell k on
RECURSIVE AllBoxes(_, _, _, _, _)
AllBoxes(g, w, h, k, thickness) ==
    IF k >= w * h THEN <<>>
    ELSE LET x == k % w
             y == k \div w
         IN (IF g[y][x] = 1 THEN CellBoxes(g, w, h, x, y, thickness) ELSE <<>>)
            \o AllBoxes(g, w, h, k + 1, thickness)

\* vertices and faces after add_box was called for each box in turn
MeshOfBoxes(boxes, ht) ==
    [v |-> [i \in 1..(8 * Len(boxes)) |->
              LET b == boxes[((i - 1) \div 8) + 1]
              IN BoxVertices(b[1], b[2], b[3], b[4], ht)[((i - 1) % 8) + 1]],
     f |-> [j \in 1..(6 * Len(boxes)) |->
              BoxFaces(VertexCountBefore(((j - 1) \div 6) + 1))[((j - 1) % 6) + 1]]]

\* lines 117-120: the thickness and the height the export uses
ExportThickness(arg, self_thickness) ==
    FMax(FxTenth, FMin(FxOne, IF arg.some THEN arg.v ELSE self_thickness))

ExportHeight(arg, self_height) ==
    FMax(FxTenth, IF arg.some THEN arg.v ELSE self_height)

WallMesh(g, w, h, thickness, ht) ==
    MeshOfBoxes(AllBoxes(g, w, h, 0, thickness), ht)

\* lines 199 and 202: the header line and the path count
MazeHeader ==
    << <<WordTok("v6"), IntTok(30), WordTok("Y"), IntTok(2),
         DecTok(600000), DecTok(600000), DecTok(600000),
         IntTok(0), IntTok(0), IntTok(0), IntTok(0)>>,
       <<IntTok(0)>> >>

VertexLines(vs) ==
    [i \in 1..Len(vs) |->
        <<FloatTok(vs[i][1]), FloatTok(vs[i][2]), FloatTok(vs[i][3])>>]

MazeFaceLines(fs) ==
    [i \in 1..Len(fs) |->
        <<IntTok(4), IntTok(fs[i][1]), IntTok(fs[i][2]),
          IntTok(fs[i][3]), IntTok(fs[i][4])>>]

\* lines 195-212: what export_to_dat writes
MazeFileOf(m) ==
    MazeHeader
    \o << <<IntTok(Len(m.v))>> >> \o VertexLines(m.v)
    \o << <<IntTok(Len(m.f))>> >> \o MazeFaceLines(m.f)

ThicknessArgs == {None, Some(FxHalf)}
HeightArgs == {None, Some(FxHalf)}

\* one export of the generated maze, as in test_export and the game's
\* custom mode
ExportToDat ==
    /\ tool = "maze"
    /\ UNCHANGED <<editorVars, game, extraVars>>
    /\ mpc = "done"
    /\ file = <<>>
    /\ \E ta \in ThicknessArgs, ha \in HeightArgs :
          file' = MazeFileOf(WallMesh(grid, width, height,
                                      ExportThickness(ta, wall_thickness),
                                      ExportHeight(ha, wall_height)))
    /\ UNCHANGED <<tool, req, width, height, wall_thickness, wall_height,
                   grid, stack, mpc, pushed, miro>>

-----------------------------------------------------------------------------
(* Reading a file: Python indexing, int() and float() of tokens *)

\* seq[i] of a Python list: defined for -len <= i < len
PyOK(seq, i) == 0 - Len(seq) <= i /\ i < Len(seq)
PyAt(seq, i) == seq[(IF i < 0 THEN i + Len(seq) ELSE i) + 1]

RECURSIVE DigitsValue(_, _)
DigitsValue(d, n) == IF n = 0 THEN 0 ELSE 10 * DigitsValue(d, n - 1) + d[n]

\* a digit string with its digits kept, as the rows of a grid section are
BitsTok(d) == [k |-> "b", d |-> d]

\* int(token) succeeds on integer literals only
TokIsInt(t) == t.k \in {"i", "b"}
TokInt(t) == IF t.k = "i" THEN t.v ELSE DigitsValue(t.d, Len(t.d))

\* float(token) succeeds on integer and decimal literals
TokIsFloat(t) == t.k \in {"i", "f", "b"}
TokFloat(t) == IF t.k = "f" THEN t.v * 10 ELSE TokInt(t) * FxOne

\* int(lines[idx].strip()): the line must be one integer literal
IsIntLine(l) == Len(l) = 1 /\ TokIsInt(l[1])

\* p = line.split(); len(p) == 1 and p[0] in ['0', '1']
IsFlagLine(l) ==
    /\ Len(l) = 1
    /\ \/ l[1].k = "i" /\ l[1].v \in {0, 1}
       \/ l[1].k = "b" /\ l[1].d \in {<<0>>, <<1>>}

IsFloatsLine(l) == \A i \in 1..Len(l) : TokIsFloat(l[i])
FloatsOf(l) == [i \in 1..Len(l) |-> TokFloat(l[i])]

IsIntsLine(l) == \A i \in 1..Len(l) : TokIsInt(l[i])
IntsOf(l) == [i \in 1..Len(l) |-> TokInt(l[i])]

\* parts[1:]
Tail1(q) == IF Len(q) <= 1 THEN <<>> ELSE SubSeq(q, 2, Len(q))

\* range(n) runs max(n, 0) times
RangeLen(n) == IF n < 0 THEN 0 ELSE n

SetMin(S) == CHOOSE a \in S : \A b \in S : a <= b
SetMax(S) == CHOOSE a \in S : \A b \in S : b <= a

\* the loop "for _ in range(n): <read lines[idx]>; idx += 1" stops at the
\* first of its n lines that raises; a line past the end of the file raises
LoopRange(lines, idx, n) == 0..(FMin(n, Len(lines) - idx + 1) - 1)

FirstBad(bad, n) == IF bad = {} THEN n ELSE SetMin(bad)

\* n lines of floats from idx on, appended one by one; stops at the first
\* line that raises (IndexError, ValueError)
ParseFloatLines(lines, idx, n, acc) ==
    LET bad == {i \in LoopRange(lines, idx, n) :
                   ~PyOK(lines, idx + i) \/ ~IsFloatsLine(PyAt(lines, idx + i))}
        k == FirstBad(bad, n)
    IN [ok |-> bad = {}, idx |-> idx + k,
        out |-> acc \o [i \in 1..k |-> FloatsOf(PyAt(lines, idx + i - 1))]]

-----------------------------------------------------------------------------
(* MiroOpenGLWidget.load_maze *)

\* lines 488-498: skip the path records
RECURSIVE SkipPaths(_, _, _)
SkipPaths(lines, idx, n) ==
    IF n = 0 THEN [ok |-> TRUE, idx |-> idx]
    ELSE IF ~PyOK(lines, idx) \/ ~IsIntLine(PyAt(lines, idx))
    THEN [ok |-> FALSE, idx |-> idx]
    ELSE LET num_pts == TokInt(PyAt(lines, idx)[1])
             flag == PyOK(lines, idx + 1) /\ IsFlagLine(PyAt(lines, idx + 1))
         IN SkipPaths(lines, idx + 1 + (IF flag THEN 1 ELSE 0) + num_pts, n - 1)

\* lines 525-528: the largest y of a face, IndexError as ok = FALSE
RECURSIVE FaceMaxY(_, _, _, _)
FaceMaxY(V, face, i, max_y) ==
    IF i > Len(face) THEN [ok |-> TRUE, y |-> max_y]
    ELSE IF ~(face[i] < Len(V)) THEN FaceMaxY(V, face, i + 1, max_y)
    ELSE IF ~PyOK(V, face[i]) \/ Len(PyAt(V, face[i])) < 2
    THEN [ok |-> FALSE, y |-> max_y]
    ELSE FaceMaxY(V, face, i + 1, FMax(max_y, PyAt(V, face[i])[2]))

WallY == 6 * FxTenth     \* 0.6

\* lines 516-536: read and classify n faces; a face is appended to
\* maze_faces before it is classified
ParseMazeFaces(lines, idx, n, V, acc) ==
    LET lineBad(i) == ~PyOK(lines, idx + i) \/ ~IsIntsLine(PyAt(lines, idx + i))
        face(i) == Tail1(IntsOf(PyAt(lines, idx + i)))
        bad == {i \in LoopRange(lines, idx, n) :
                   lineBad(i) \/ ~FaceMaxY(V, face(i), 1, 0).ok}
        k == FirstBad(bad, n)
        read == [i \in 1..k |-> face(i - 1)]
        isWall(f) == FaceMaxY(V, f, 1, 0).y >= WallY
        isFloor(f) == ~isWall(f)
        kept == IF bad # {} /\ ~lineBad(k) THEN Append(read, face(k)) ELSE read
    IN [ok |-> bad = {},
        idx |-> IF bad # {} /\ ~lineBad(k) THEN idx + k + 1 ELSE idx + k,
        faces |-> acc.faces \o kept,
        wall |-> acc.wall \o SelectSeq(read, isWall),
        floor |-> acc.floor \o SelectSeq(read, isFloor)]

\* self.floor_height_map[(gx, gz)] = h
MapPut(m, key, val) ==
    [q \in (DOMAIN m) \cup {key} |-> IF q = key THEN val ELSE m[q]]

EmptyMap == [q \in {} |-> 0]

\* lines 543-548: n height entries, each read only while idx < len(lines)
RECURSIVE ParseHeights(_, _, _, _)
ParseHeights(lines, idx, n, acc) ==
    IF n = 0 \/ ~(idx < Len(lines)) THEN [ok |-> TRUE, idx |-> idx, out |-> acc]
    ELSE IF ~PyOK(lines, idx) THEN [ok |-> FALSE, idx |-> idx, out |-> acc]
    ELSE LET l == PyAt(lines, idx)
         IN IF Len(l) < 3 \/ ~TokIsInt(l[1]) \/ ~TokIsInt(l[2]) \/ ~TokIsFloat(l[3])
            THEN [ok |-> FALSE, idx |-> idx, out |-> acc]
            ELSE ParseHeights(lines, idx + 1, n - 1,
                    MapPut(acc, <<TokInt(l[1]), TokInt(l[2])>>, TokFloat(l[3])))

RECURSIVE DigitsOfNat(_)
DigitsOfNat(n) == IF n < 10 THEN <<n>> ELSE Append(DigitsOfNat(n \div 10), n % 10)

\* [int(c) for c in line.strip()]: every character must be a digit
IsRowLine(l) ==
    \/ Len(l) = 0
    \/ Len(l) = 1 /\ (l[1].k = "b" \/ (l[1].k = "i" /\ l[1].v >= 0))
RowOf(l) ==
    IF Len(l) = 0 THEN <<>>
    ELSE IF l[1].k = "b" THEN l[1].d ELSE DigitsOfNat(l[1].v)

\* lines 569-573
RECURSIVE ParseRows(_, _, _, _)
ParseRows(lines, idx, n, acc) ==
    IF n = 0 \/ ~(idx < Len(lines)) THEN [ok |-> TRUE, idx |-> idx, out |-> acc]
    ELSE IF ~PyOK(lines, idx) \/ ~IsRowLine(PyAt(lines, idx))
    THEN [ok |-> FALSE, idx |-> idx, out |-> acc]
    ELSE ParseRows(lines, idx + 1, n - 1, Append(acc, RowOf(PyAt(lines, idx))))

\* _calculate_normals raises IndexError when a face of 3 or more indices
\* names a vertex that does not exist or has fewer than 3 coordinates
NormalsRaise(V, faces) ==
    \E i \in 1..Len(faces) :
        /\ Len(faces[i]) >= 3
        /\ \E j \in 1..3 :
              ~PyOK(V, faces[i][j]) \/ Len(PyAt(V, faces[i][j])) < 3

Coord(V, c) == {V[i][c] : i \in 1..Len(V)}

RECURSIVE SumCoord(_, _, _)
SumCoord(vs, c, n) == IF n = 0 THEN 0 ELSE SumCoord(vs, c, n - 1) + vs[n][c]

\* verts = [self.maze_vertices[idx] for idx in face if idx < len(...)]
RECURSIVE FaceVerts(_, _, _)
FaceVerts(V, face, n) ==
    IF n = 0 THEN <<>>
    ELSE IF face[n] < Len(V) THEN Append(FaceVerts(V, face, n - 1), PyAt(V, face[n]))
    ELSE FaceVerts(V, face, n - 1)

\* int(x) of a float: truncation toward zero, here of x / 1.0
FxInt(fx) == IF fx >= 0 THEN fx \div FxOne ELSE 0 - ((0 - fx) \div FxOne)

\* lines 895-910: the cells marked as wall: the cell under the centre of
\* every face whose highest vertex is above 0.6
MarkedCells(V, faces, min_x, min_z, gw, gh) ==
    LET verts(i) == FaceVerts(V, faces[i], Len(faces[i]))
        marks(i) ==
            LET vs == verts(i)
                n == Len(vs)
                max_y == SetMax({vs[j][2] : j \in 1..n})
                avg_x == SumCoord(vs, 1, n) \div n
                avg_z == SumCoord(vs, 3, n) \div n
                gx == FxInt(avg_x - min_x)
                gz == FxInt(avg_z - min_z)
            IN IF n > 0 /\ max_y > WallY
                  /\ 0 <= gz /\ gz < gh /\ 0 <= gx /\ gx < gw
               THEN {<<gx, gz>>} ELSE {}
    IN UNION {marks(i) : i \in 1..Len(faces)}

\* _build_collision_grid
BuildCollisionGrid(w, min_x, max_x, min_z, max_z) ==
    IF w.original_maze_grid # <<>> /\ w.original_maze_width # 0
       /\ w.original_maze_height # 0
    THEN [w EXCEPT !.grid_min_x = 0 - ((w.original_maze_width * FxOne) \div 2),
                   !.grid_min_z = 0 - ((w.original_maze_height * FxOne) \div 2),
                   !.maze_grid = [y \in 0..(Len(w.original_maze_grid) - 1) |->
                                    LET row == w.original_maze_grid[y + 1]
                                    IN [x \in 0..(Len(row) - 1) |-> row[x + 1]]],
                   !.maze_width = w.original_maze_width,
                   !.maze_height = w.original_maze_height]
    ELSE LET grid_width == FxInt(max_x - min_x) + 2
             grid_height == FxInt(max_z - min_z) + 2
             marked == MarkedCells(w.maze_vertices, w.maze_faces,
                                   min_x, min_z, grid_width, grid_height)
         IN [w EXCEPT !.grid_min_x = min_x,
                      !.grid_min_z = min_z,
                      !.maze_grid = [y \in 0..(grid_height - 1) |->
                                       [x \in 0..(grid_width - 1) |->
                                          IF <<x, y>> \in marked THEN 1 ELSE 0]],
                      !.maze_width = grid_width,
                      !.maze_height = grid_height]

\* len() of the collision grid or of one of its rows (indexed from 0)
GridLen(g) == Cardinality(DOMAIN g)

\* the first element of a set of <<gz, gx>> cells in row-major order, and
\* the last
FirstCell(S) ==
    CHOOSE c \in S : \A d \in S : c[1] < d[1] \/ (c[1] = d[1] /\ c[2] <= d[2])
LastCell(S) ==
    CHOOSE c \in S : \A d \in S : d[1] < c[1] \/ (d[1] = c[1] /\ d[2] <= c[2])

\* grid[gz][gx] of the list of rows read from the file raises IndexError
CellRaises(rows, gz, gx) ==
    ~PyOK(rows, gz) \/ ~PyOK(PyAt(rows, gz), gx)
CellIsPassage(rows, gz, gx) ==
    ~CellRaises(rows, gz, gx) /\ PyAt(PyAt(rows, gz), gx) = 0

\* _find_spawn_from_original_grid, lines 925-960: the entrance is looked
\* for in row 0 from the left and the exit in the last row from the right,
\* then the first passage of the grid; a row or a column that the file did
\* not provide raises IndexError
FindSpawnFromOriginalGrid(w, near_top) ==
    LET rows == w.original_maze_grid
        gh == w.original_maze_height
        gw == w.original_maze_width
        offset_x == 0 - ((gw * FxOne) \div 2)
        offset_z == 0 - ((gh * FxOne) \div 2)
        gz0 == IF near_top THEN 0 ELSE gh - 1
        stop(gz, gx) == CellRaises(rows, gz, gx) \/ CellIsPassage(rows, gz, gx)
        edge == {gx \in 0..(gw - 1) : stop(gz0, gx)}
        egx == IF near_top THEN SetMin(edge) ELSE SetMax(edge)
        inner == {c \in (0..(gh - 1)) \X (0..(gw - 1)) : stop(c[1], c[2])}
        c0 == FirstCell(inner)
        at(gz, gx) == [ok |-> TRUE,
                       pos |-> <<offset_x + gx * FxOne + FxHalf,
                                 offset_z + gz * FxOne + FxHalf>>]
        raise == [ok |-> FALSE, pos |-> <<0, 0>>]
    IN IF edge # {}
       THEN IF CellRaises(rows, gz0, egx) THEN raise
            ELSE at(IF near_top THEN 0 - 1 ELSE gh - 1, egx)
       ELSE IF inner # {}
       THEN IF CellRaises(rows, c0[1], c0[2]) THEN raise ELSE at(c0[1], c0[2])
       ELSE [ok |-> TRUE, pos |-> <<0, 0>>]

\* _find_spawn_from_collision_grid, lines 962-992: the first passage of the
\* collision grid from the top, or the last one
FindSpawnFromCollisionGrid(w, near_top) ==
    IF GridLen(w.maze_grid) = 0 \/ GridLen(w.maze_grid[0]) = 0
    THEN [ok |-> TRUE, pos |-> <<0, 0>>]
    ELSE LET grid_height == GridLen(w.maze_grid)
             grid_width == GridLen(w.maze_grid[0])
             passages == {c \in (0..(grid_height - 1)) \X (0..(grid_width - 1)) :
                             w.maze_grid[c[1]][c[2]] = 0}
             c0 == IF near_top THEN FirstCell(passages) ELSE LastCell(passages)
         IN IF passages # {}
            THEN [ok |-> TRUE,
                  pos |-> <<w.grid_min_x + c0[2] * FxOne + FxHalf,
                            w.grid_min_z + c0[1] * FxOne + FxHalf>>]
            ELSE [ok |-> TRUE,
                  pos |-> <<w.grid_min_x + (grid_width * FxOne) \div 2,
                            w.grid_min_z + (grid_height * FxOne) \div 2>>]

\* _find_safe_spawn, lines 916-923
FindSafeSpawn(w, near_top) ==
    IF w.original_maze_grid # <<>> THEN FindSpawnFromOriginalGrid(w, near_top)
    ELSE FindSpawnFromCollisionGrid(w, near_top)

Failed(w) == [w EXCEPT !.status = "failed"]

\* _calculate_maze_bounds, lines 848-866: the collision grid, then the
\* start and the goal; status "failed" when a spawn search raises
CalculateMazeBounds(w) ==
    IF w.maze_vertices = <<>> THEN w
    ELSE LET w1 == BuildCollisionGrid(w, SetMin(Coord(w.maze_vertices, 1)),
                                         SetMax(Coord(w.maze_vertices, 1)),
                                         SetMin(Coord(w.maze_vertices, 3)),
                                         SetMax(Coord(w.maze_vertices, 3)))
             start == FindSafeSpawn(w1, TRUE)
             w2 == [w1 EXCEPT !.start_pos = start.pos]
             goal == FindSafeSpawn(w2, FALSE)
         IN IF ~start.ok THEN Failed(w1)
            ELSE IF ~goal.ok THEN Failed(w2)
            ELSE [w2 EXCEPT !.goal_pos = goal.pos]

\* MiroOpenGLWidget.__init__, lines 73-89
NewWidget ==
    [maze_vertices |-> <<>>, maze_faces |-> <<>>,
     wall_faces |-> <<>>, floor_faces |-> <<>>,
     floor_height_map |-> EmptyMap,
     original_maze_grid |-> <<>>,
     original_maze_width |-> 0, original_maze_height |-> 0,
     maze_grid |-> <<>>, maze_width |-> 0, maze_height |-> 0,
     grid_min_x |-> 0, grid_min_z |-> 0,
     start_pos |-> <<0, 0>>, goal_pos |-> <<0, 0>>,
     current_theme |-> "810-Gwan",
     is_valid |-> FALSE,       \* isValid(): the widget has a GL context
     theme_walls |-> 0,        \* len(theme_textures['walls'])
     theme_floors |-> 0,       \* len(theme_textures['floors'])
     batches |-> 0,            \* len(wall_batches) + len(floor_batches)
     vbo_initialized |-> FALSE,
     gl_buffers |-> 0,         \* history: buffers generated and not deleted
     inits |-> 0,              \* history: calls of initializeGL
     status |-> "none"]

\* a batch holds three buffers: vertices, uvs, normals (lines 826-833)
BuffersPerBatch == 3

\* _cleanup_vbos, lines 636-668: without a GL context only the references
\* are dropped
CleanupVbos(w) ==
    IF ~w.is_valid
    THEN [w EXCEPT !.batches = 0, !.vbo_initialized = FALSE]
    ELSE [w EXCEPT !.gl_buffers = @ - BuffersPerBatch * w.batches,
                   !.batches = 0, !.vbo_initialized = FALSE]

\* process_faces, lines 727-834: one batch per texture that got a face;
\* with one texture all faces go to it
BatchesOf(faces, textures) == IF textures = 0 \/ faces = <<>> THEN 0 ELSE 1

\* _create_vbos, lines 706-846: the two batch lists are assigned [] and
\* filled again; nothing is deleted here
CreateVbos(w) ==
    IF w.maze_vertices = <<>> THEN w
    ELSE LET n == BatchesOf(w.wall_faces, w.theme_walls)
                  + BatchesOf(w.floor_faces, w.theme_floors)
         IN [w EXCEPT !.batches = n,
                      !.gl_buffers = @ + BuffersPerBatch * n,
                      !.vbo_initialized = TRUE]

\* _load_textures, lines 243-274: the old textures are deleted, found is
\* the number of wall (and of floor) images of the theme on disk
LoadTextures(w, found) == [w EXCEPT !.theme_walls = found, !.theme_floors = found]

\* initializeGL, lines 202-241: called with a GL context
InitializeGLOf(w, found) ==
    LET w1 == LoadTextures([w EXCEPT !.is_valid = TRUE, !.inits = @ + 1], found)
    IN IF w1.maze_vertices # <<>> /\ ~w1.vbo_initialized THEN CreateVbos(w1)
       ELSE w1

THEMES == {"810-Gwan", "Inside Campus", "Path to the Main Gate", "Developer"}

\* set_theme, lines 146-170
SetThemeOf(w, theme_name, found) ==
    LET w1 == IF theme_name \in THEMES
              THEN LET t == [w EXCEPT !.current_theme = theme_name]
                   IN IF t.is_valid THEN LoadTextures(t, found) ELSE t
              ELSE w
    IN [w1 EXCEPT !.vbo_initialized = FALSE]

\* lines 558-573: the raw grid section
LoadGridSection(w, lines, idx) ==
    LET w0 == [w EXCEPT !.original_maze_grid = <<>>,
                        !.original_maze_width = 0,
                        !.original_maze_height = 0]
    IN IF ~(idx < Len(lines)) THEN w0
       ELSE IF ~PyOK(lines, idx) THEN Failed(w0)
       ELSE LET sp == PyAt(lines, idx)
            IN IF Len(sp) # 2 THEN w0
               ELSE IF ~TokIsInt(sp[1]) THEN Failed(w0)
               ELSE IF ~TokIsInt(sp[2])
               THEN Failed([w0 EXCEPT !.original_maze_width = TokInt(sp[1])])
               ELSE LET w1 == [w0 EXCEPT !.original_maze_width = TokInt(sp[1]),
                                         !.original_maze_height = TokInt(sp[2])]
                        rows == ParseRows(lines, idx + 1,
                                          RangeLen(TokInt(sp[2])), <<>>)
                        w2 == [w1 EXCEPT !.original_maze_grid = rows.out]
                    IN IF rows.ok THEN w2 ELSE Failed(w2)

\* step(v) for the value v of the statement before it: the statements of a
\* method run one after the other, each on the result of the one before
Then(v, step(_)) == CHOOSE out \in {step(r) : r \in {v}} : TRUE

\* lines 575-598: after the file is read
LoadMazeFinish(w, wall, floor) ==
    LET w1 == [w EXCEPT !.wall_faces = wall, !.floor_faces = floor]
    IN IF NormalsRaise(w1.maze_vertices, w1.maze_faces) THEN Failed(w1)
       ELSE IF \E i \in 1..Len(w1.maze_vertices) : Len(w1.maze_vertices[i]) < 3
       THEN Failed(w1)
       ELSE Then(CalculateMazeBounds(w1), LAMBDA w2 :
                IF w2.status = "failed" THEN w2
                ELSE Then(CleanupVbos(w2), LAMBDA w3 :
                         [(IF w3.is_valid /\ w3.theme_walls > 0 THEN CreateVbos(w3)
                           ELSE w3) EXCEPT !.status = "loaded"]))

\* lines 538-548: the floor height section, then the rest
LoadHeightSection(w, lines, idx, wall, floor) ==
    LET w0 == [w EXCEPT !.floor_height_map = EmptyMap]
    IN IF ~(idx < Len(lines))
       THEN LET w1 == LoadGridSection(w0, lines, idx)
            IN IF w1.status = "failed" THEN w1 ELSE LoadMazeFinish(w1, wall, floor)
       ELSE IF ~PyOK(lines, idx) \/ ~IsIntLine(PyAt(lines, idx)) THEN Failed(w0)
       ELSE LET hs == ParseHeights(lines, idx + 1,
                                   RangeLen(TokInt(PyAt(lines, idx)[1])), EmptyMap)
                w1 == [w0 EXCEPT !.floor_height_map = hs.out]
            IN IF ~hs.ok THEN Failed(w1)
               ELSE LET w2 == LoadGridSection(w1, lines, hs.idx)
                    IN IF w2.status = "failed" THEN w2
                       ELSE LoadMazeFinish(w2, wall, floor)

\* lines 500-536: vertices and faces
LoadMeshSection(w, lines, idx) ==
    IF ~PyOK(lines, idx) \/ ~IsIntLine(PyAt(lines, idx)) THEN Failed(w)
    ELSE LET vs == ParseFloatLines(lines, idx + 1,
                                   RangeLen(TokInt(PyAt(lines, idx)[1])), <<>>)
             w1 == [w EXCEPT !.maze_vertices = vs.out]
         IN IF ~vs.ok \/ ~PyOK(lines, vs.idx) \/ ~IsIntLine(PyAt(lines, vs.idx))
            THEN Failed(w1)
            ELSE LET fs == ParseMazeFaces(lines, vs.idx + 1,
                               RangeLen(TokInt(PyAt(lines, vs.idx)[1])),
                               w1.maze_vertices,
                               [faces |-> <<>>, wall |-> <<>>, floor |-> <<>>])
                     w2 == [w1 EXCEPT !.maze_faces = fs.faces]
                 IN IF ~fs.ok THEN Failed(w2)
                    ELSE LoadHeightSection(w2, lines, fs.idx, fs.wall, fs.floor)

\* load_maze: the widget after the call.  status is "loaded" when the call
\* reaches line 594 and "failed" when it ends in the except branch.
LoadMazeResult(w, lines) ==
    LET w0 == [w EXCEPT !.status = "none"]
    IN IF Len(lines) = 0 \/ Len(lines[1]) = 0 THEN Failed(w0)
       ELSE IF Len(lines) < 2 \/ ~IsIntLine(lines[2]) THEN Failed(w0)
       ELSE LET sk == SkipPaths(lines, 2, RangeLen(TokInt(lines[2][1])))
            IN IF ~sk.ok THEN Failed(w0)
               ELSE LoadMeshSection(w0, lines, sk.idx)

\* the game loads the file on disk into a fresh widget
LoadMaze ==
    /\ (tool = "maze" /\ mpc = "done")
       \/ (tool = "files" /\ legacy.container = "modeler")
       \/ tool \in {"game", "walk", "jump"}
    /\ UNCHANGED <<editorVars, game, extraVars>>
    /\ file # <<>>
    /\ miro.status = "none"
    /\ miro' = LoadMazeResult(miro, file)
    /\ UNCHANGED <<tool, req, width, height, wall_thickness, wall_height,
                   grid, stack, mpc, pushed, file>>

-----------------------------------------------------------------------------
(* The maze game: player state, collision, movement, vertical physics *)

\* lines 20-28
PLAYER_HEIGHT == 8 * FxTenth
PLAYER_RADIUS == FxOne \div 4
MOVE_SPEED == 8 * (FxTenth \div 10)
GAME_TICK_MS == 16
GRAVITY == 0 - 15 * FxOne
JUMP_VELOCITY == 5 * FxOne

\* __init__, lines 66-104; game_won records that the signal was emitted
NewGame ==
    [player_pos |-> <<0, PLAYER_HEIGHT, 0>>,
     player_yaw |-> 0,            \* in quarter turns
     player_velocity_y |-> 0,
     is_grounded |-> TRUE,
     keys_pressed |-> {},
     goal_radius |-> FxHalf,
     game_active |-> FALSE,
     game_paused |-> FALSE,
     mouse_captured |-> FALSE,
     timer_active |-> FALSE,      \* game_timer.isActive() of the widget
     move_speed |-> MOVE_SPEED,
     game_won |-> FALSE,
     emitted |-> 0]               \* history: game_won signals since start_game

\* int((coord - grid_min) / grid_scale) with grid_scale 1.0
GridCoord(coord, grid_min) == FxInt(coord - grid_min)

\* _get_floor_height_at, lines 1344-1361
GetFloorHeightAt(w, x, z) ==
    IF DOMAIN w.floor_height_map = {} THEN 0
    ELSE LET orig == w.original_maze_width # 0 /\ w.original_maze_height # 0
             offset_x == 0 - ((w.original_maze_width * FxOne) \div 2)
             offset_z == 0 - ((w.original_maze_height * FxOne) \div 2)
             gx == IF orig THEN FxInt(x - offset_x) ELSE GridCoord(x, w.grid_min_x)
             gz == IF orig THEN FxInt(z - offset_z) ELSE GridCoord(z, w.grid_min_z)
         IN IF <<gx, gz>> \in DOMAIN w.floor_height_map
            THEN w.floor_height_map[<<gx, gz>>] ELSE 0

\* lines 1147-1148
SampleOffsets == {0 - PLAYER_RADIUS, 0, PLAYER_RADIUS}

\* lines 1149-1160: the sample is outside the grid or in a wall cell
SampleHits(w, check_x, check_z) ==
    LET gx == GridCoord(check_x, w.grid_min_x)
        gz == GridCoord(check_z, w.grid_min_z)
    IN IF 0 <= gz /\ gz < GridLen(w.maze_grid)
          /\ 0 <= gx /\ gx < GridLen(w.maze_grid[0])
       THEN w.maze_grid[gz][gx] = 1
       ELSE TRUE

\* a plausible slip: the unused constant MAX_STEP_HEIGHT (0.3) as the limit
StepUpLimitMax == 3 * FxTenth

\* line 1170: the largest rise that is not blocked
StepUpLimit == FxOne \div 100

\* lines 1163-1171: the height rule
HeightBlocks(w, g, x, z) ==
    /\ DOMAIN w.floor_height_map # {}
    /\ g.is_grounded
    /\ GetFloorHeightAt(w, x, z)
         - GetFloorHeightAt(w, g.player_pos[1], g.player_pos[3]) > StepUpLimit

\* _check_collision, lines 1141-1173
CheckCollision(w, g, x, z) ==
    IF GridLen(w.maze_grid) = 0 THEN FALSE
    ELSE \/ \E offset_x \in SampleOffsets, offset_z \in SampleOffsets :
               SampleHits(w, x + offset_x, z + offset_z)
         \/ HeightBlocks(w, g, x, z)

\* a plausible slip: the floor height is left out of the ground height
GroundYFlat(w, g) == PLAYER_HEIGHT

\* lines 1368-1369 and 1405-1406: the y of a player standing on the tile
GroundY(w, g) ==
    GetFloorHeightAt(w, g.player_pos[1], g.player_pos[3]) + PLAYER_HEIGHT

\* _update_ground_state, lines 1400-1417
UpdateGroundState(w, g) ==
    IF ~g.is_grounded THEN g
    ELSE LET new_floor == GetFloorHeightAt(w, g.player_pos[1], g.player_pos[3])
             current_feet == g.player_pos[2] - PLAYER_HEIGHT
             height_diff == new_floor - current_feet
         IN IF height_diff < 0 - (FxOne \div 20)
            THEN [g EXCEPT !.is_grounded = FALSE]
            ELSE [g EXCEPT !.player_pos[2] = GroundY(w, g)]

\* a plausible slip: the x move is applied without the collision test
MoveXAlways(w, g, new_x) ==
    UpdateGroundState(w, [g EXCEPT !.player_pos[1] = new_x])

\* lines 1126-1129
MoveX(w, g, new_x) ==
    IF CheckCollision(w, g, new_x, g.player_pos[3]) THEN g
    ELSE UpdateGroundState(w, [g EXCEPT !.player_pos[1] = new_x])

\* a plausible slip: the z move is applied without the collision test
MoveZAlways(w, g, new_z) ==
    UpdateGroundState(w, [g EXCEPT !.player_pos[3] = new_z])

\* lines 1134-1137
MoveZ(w, g, new_z) ==
    IF CheckCollision(w, g, g.player_pos[1], new_z) THEN g
    ELSE UpdateGroundState(w, [g EXCEPT !.player_pos[3] = new_z])

\* math.sin and math.cos of a yaw of q quarter turns
SinQ(q) == <<0, 1, 0, 0 - 1>>[(q % 4) + 1]
CosQ(q) == <<1, 0, 0 - 1, 0>>[(q % 4) + 1]

\* how far a held key pair pushes: +1, 0 or -1 times the speed
KeyPush(g, plus, minus) ==
    (IF plus \in g.keys_pressed THEN g.move_speed ELSE 0)
    - (IF minus \in g.keys_pressed THEN g.move_speed ELSE 0)

\* lines 1101-1119: forward is (sin yaw, cos yaw), right is (cos yaw, -sin yaw)
MoveDx(g) ==
    SinQ(g.player_yaw) * KeyPush(g, "W", "S") + CosQ(g.player_yaw) * KeyPush(g, "A", "D")
MoveDz(g) ==
    CosQ(g.player_yaw) * KeyPush(g, "W", "S") - SinQ(g.player_yaw) * KeyPush(g, "A", "D")

\* _process_movement, lines 1095-1139
ProcessMovement(w, g) ==
    IF g.keys_pressed = {} THEN g
    ELSE LET new_x == g.player_pos[1] + MoveDx(g)
             new_z == g.player_pos[3] + MoveDz(g)
         IN Then(MoveX(w, g, new_x), LAMBDA g1 : MoveZ(w, g1, new_z))

\* a plausible slip: the velocity is kept from becoming negative
FallVelocityClamped(g) ==
    IF g.player_velocity_y + (GRAVITY \div 1000) * GAME_TICK_MS > 0
    THEN g.player_velocity_y + (GRAVITY \div 1000) * GAME_TICK_MS ELSE 0

\* line 1378: velocity after one tick of gravity
FallVelocity(g) == g.player_velocity_y + (GRAVITY \div 1000) * GAME_TICK_MS

\* _process_vertical_physics, lines 1363-1390, with dt = 0.016
ProcessVerticalPhysics(w, g) ==
    LET ground_y == GroundY(w, g)
        velocity == FallVelocity(g)
        y == g.player_pos[2] + (velocity \div 1000) * GAME_TICK_MS
    IN IF g.is_grounded
       THEN [g EXCEPT !.player_pos[2] = ground_y, !.player_velocity_y = 0]
       ELSE IF velocity < 0 /\ y <= ground_y
       THEN [g EXCEPT !.player_pos[2] = ground_y, !.player_velocity_y = 0,
                      !.is_grounded = TRUE]
       ELSE [g EXCEPT !.player_pos[2] = y, !.player_velocity_y = velocity]

\* a plausible slip: the jump is not tied to the ground
TryJumpAlways(g) ==
    [g EXCEPT !.player_velocity_y = JUMP_VELOCITY, !.is_grounded = FALSE]

\* _try_jump, lines 1392-1396
TryJump(g) ==
    IF g.is_grounded
    THEN [g EXCEPT !.player_velocity_y = JUMP_VELOCITY, !.is_grounded = FALSE]
    ELSE g

\* a length in 1e-3 units, so that its square is a machine integer
Milli(fx) == fx \div 10000

\* lines 1177-1180: the squared planar distance to the goal
DistanceSq(w, g) ==
    LET dx == Milli(g.player_pos[1] - w.goal_pos[1])
        dz == Milli(g.player_pos[3] - w.goal_pos[2])
    IN dx * dx + dz * dz

\* a plausible slip: the border of the goal circle counts as reached
GoalReachedInclusive(w, g) ==
    DistanceSq(w, g) <= Milli(g.goal_radius) * Milli(g.goal_radius)

\* line 1183
GoalReached(w, g) ==
    DistanceSq(w, g) < Milli(g.goal_radius) * Milli(g.goal_radius)

\* a plausible slip: the game is marked as over but keeps ticking
StopGameKeepsTimer(g) ==
    [g EXCEPT !.game_active = FALSE, !.game_paused = FALSE,
              !.mouse_captured = FALSE]

\* stop_game, lines 1032-1042
StopGameOf(g) ==
    [g EXCEPT !.game_active = FALSE, !.game_paused = FALSE,
              !.timer_active = FALSE, !.mouse_captured = FALSE]

\* pause_game, lines 1044-1052
PauseGameOf(g) ==
    IF g.game_active /\ ~g.game_paused
    THEN [g EXCEPT !.game_paused = TRUE, !.timer_active = FALSE,
                   !.mouse_captured = FALSE]
    ELSE g

\* resume_game, lines 1054-1063
ResumeGameOf(g) ==
    IF g.game_active /\ g.game_paused
    THEN [g EXCEPT !.game_paused = FALSE, !.mouse_captured = TRUE,
                   !.timer_active = TRUE]
    ELSE g

\* _check_goal, lines 1175-1185: stop_game, then the game_won signal
CheckGoal(w, g) ==
    IF GoalReached(w, g)
    THEN [StopGameOf(g) EXCEPT !.game_won = TRUE, !.emitted = @ + 1]
    ELSE g

\* _update_game, lines 1065-1093: one tick of the game timer
UpdateGameOf(w, g) ==
    IF ~g.game_active THEN g
    ELSE Then(ProcessMovement(w, g), LAMBDA g1 :
              Then(ProcessVerticalPhysics(w, g1), LAMBDA g2 : CheckGoal(w, g2)))

\* start_game, lines 994-1031
StartGameOf(w, g) ==
    [g EXCEPT !.player_pos =
                 <<w.start_pos[1],
                   GetFloorHeightAt(w, w.start_pos[1], w.start_pos[2]) + PLAYER_HEIGHT,
                   w.start_pos[2]>>,
              !.player_yaw = 0,
              !.player_velocity_y = 0,
              !.is_grounded = TRUE,
              !.keys_pressed = {},
              !.game_active = TRUE,
              !.game_paused = FALSE,
              !.mouse_captured = TRUE,
              !.timer_active = TRUE,
              !.game_won = FALSE,
              !.emitted = 0]

\* keyPressEvent, lines 1419-1437
KeyPressEventOf(g, key) ==
    IF ~g.game_active THEN g
    ELSE IF key \in {"W", "A", "S", "D"}
    THEN [g EXCEPT !.keys_pressed = @ \cup {key}]
    ELSE IF key = "Space" THEN TryJump(g)
    ELSE IF key = "Escape" THEN PauseGameOf(g)
    ELSE g

\* mouseMoveEvent, lines 1448-1470: turn is the change of the yaw
MouseMoveEventOf(g, turn) ==
    IF ~g.game_active \/ ~g.mouse_captured THEN g
    ELSE [g EXCEPT !.player_yaw = (@ + turn) % 4]

\* mousePressEvent, lines 1480-1490
MousePressEventOf(g) ==
    IF g.game_active /\ g.game_paused THEN ResumeGameOf(g)
    ELSE IF g.game_active /\ ~g.mouse_captured
    THEN [g EXCEPT !.mouse_captured = TRUE]
    ELSE g

\* keyReleaseEvent, lines 1439-1446
KeyReleaseEventOf(g, key) == [g EXCEPT !.keys_pressed = @ \ {key}]

-----------------------------------------------------------------------------
(* MiroWindow of miro_ui_and_chang.py: sessions, cheats and skills *)

\* __init__, lines 32-42, and the GL widget's flags the window uses
NewWindow ==
    [game_session_id |-> 0,
     active_skill_count |-> 0,
     is_cheat_paused |-> FALSE,
     timer_active |-> FALSE,      \* game_timer.isActive() of the window
     stack_index |-> 0,           \* stack.currentIndex(): 0 title, 1 game
     game_active |-> FALSE,       \* gl_widget.game_active
     game_paused |-> FALSE,       \* gl_widget.game_paused
     cheat_minimap |-> FALSE,
     cheat_noclip |-> FALSE,
     cheat_xray |-> FALSE,
     eagle_eye |-> FALSE,         \* the argument of set_eagle_eye_mode
     pending |-> EmptyBag]        \* QTimer.singleShot callbacks not yet run

\* a waiting callback: sid is the session that scheduled it (the lambdas of
\* _activate_specific_skill capture it; for "resume" it is history only)
Callback(kind, sid) == [kind |-> kind, sid |-> sid]

Schedule(w, kind) ==
    [w EXCEPT !.pending = @ (+) SetToBag({Callback(kind, w.game_session_id)})]

\* _start_game, lines 493-597, for a stage whose maze file exists:
\* _start_timer, load_maze, start_game
WindowStartGameOf(w) ==
    [w EXCEPT !.game_session_id = @ + 1,
              !.timer_active = TRUE,
              !.stack_index = 1,
              !.game_active = TRUE,
              !.game_paused = FALSE]

\* _reset_skill_state, lines 648-669
ResetSkillState(w) ==
    [w EXCEPT !.active_skill_count = 0,
              !.is_cheat_paused = FALSE,
              !.cheat_minimap = FALSE,
              !.cheat_noclip = FALSE,
              !.cheat_xray = FALSE,
              !.eagle_eye = FALSE]

\* _return_to_title, lines 709-727 (stop_game, lines 1032-1042 of
\* miro_opengl.py); _on_game_over and _on_game_won end in it
ReturnToTitleOf(w) ==
    [ResetSkillState(w) EXCEPT !.game_active = FALSE,
                               !.game_paused = FALSE,
                               !.timer_active = FALSE,
                               !.stack_index = 0]

\* _on_cheat_pause_timer, lines 744-751
OnCheatPauseTimer(w) ==
    IF ~w.timer_active THEN w
    ELSE Schedule([w EXCEPT !.timer_active = FALSE, !.is_cheat_paused = TRUE],
                  "resume")

\* _resume_timer_after_pause, lines 753-761
ResumeTimerAfterPause(w, sid) ==
    LET w1 == [w EXCEPT !.is_cheat_paused = FALSE]
    IN IF w1.stack_index = 1 /\ w1.game_active /\ ~w1.game_paused
       THEN [w1 EXCEPT !.timer_active = TRUE]
       ELSE w1

\* _activate_skill_bgm and _deactivate_skill_bgm, lines 894-904
ActivateSkillBgm(w) == [w EXCEPT !.active_skill_count = @ + 1]
DeactivateSkillBgm(w) ==
    [w EXCEPT !.active_skill_count = IF @ - 1 > 0 THEN @ - 1 ELSE 0]

Effects == {"time_pause", "minimap", "ghost", "xray", "eagle"}

\* _activate_specific_skill, lines 932-983; "time_boost" changes only the
\* displayed time and schedules nothing, it is left out
ActivateSpecificSkill(w, effect) ==
    CASE effect = "time_pause" ->
            Schedule(ActivateSkillBgm(OnCheatPauseTimer(w)), "time_pause")
      [] effect = "minimap" ->
            Schedule(ActivateSkillBgm([w EXCEPT !.cheat_minimap = TRUE]), "minimap")
      [] effect = "ghost" ->
            Schedule(ActivateSkillBgm([w EXCEPT !.cheat_noclip = TRUE]), "ghost")
      [] effect = "xray" ->
            Schedule(ActivateSkillBgm([w EXCEPT !.cheat_xray = TRUE]), "xray")
      [] effect = "eagle" ->
            Schedule(ActivateSkillBgm([w EXCEPT !.eagle_eye = TRUE]), "eagle")

\* _end_time_pause_skill and _disable_*_safe, lines 994-1023
SkillExpiry(w, cb) ==
    IF cb.sid # w.game_session_id THEN w
    ELSE CASE cb.kind = "time_pause" -> DeactivateSkillBgm(w)
           [] cb.kind = "minimap" ->
                 DeactivateSkillBgm([w EXCEPT !.cheat_minimap = FALSE])
           [] cb.kind = "ghost" ->
                 DeactivateSkillBgm([w EXCEPT !.cheat_noclip = FALSE])
           [] cb.kind = "xray" ->
                 DeactivateSkillBgm([w EXCEPT !.cheat_xray = FALSE])
           [] cb.kind = "eagle" ->
                 DeactivateSkillBgm([w EXCEPT !.eagle_eye = FALSE])

\* the event loop runs a waiting callback
RunCallback(w, cb) ==
    LET w1 == [w EXCEPT !.pending = @ (-) SetToBag({cb})]
    IN IF cb.kind = "resume" THEN ResumeTimerAfterPause(w1, cb.sid)
       ELSE SkillExpiry(w1, cb)

\* pause_game and resume_game of miro_opengl.py, lines 1044-1063, with the
\* window's _on_game_paused and _on_game_resumed, lines 700-707
WindowPauseGameOf(w) ==
    IF w.game_active /\ ~w.game_paused
    THEN [w EXCEPT !.game_paused = TRUE, !.timer_active = FALSE]
    ELSE w

WindowResumeGameOf(w) ==
    IF w.game_active /\ w.game_paused
    THEN [w EXCEPT !.game_paused = FALSE,
                   !.timer_active = IF w.is_cheat_paused THEN @ ELSE TRUE]
    ELSE w

-----------------------------------------------------------------------------
(* WeatherSystem of miro_weather.py *)

\* the % of Python and numpy: the result has the sign of the divisor
PyMod(a, b) == a % b

\* the remainder of C's fmod: the result has the sign of the dividend
FMod(a, b) == IF a >= 0 THEN a % b ELSE 0 - ((0 - a) % b)

\* __init__, lines 11-28; updates, last_call and player are history: the
\* number of update calls, the last call and the player_pos it was given
NewWeather ==
    [extent |-> 12 * FxOne,
     positions |-> [i \in 1..MaxParticles |-> <<0, 0, 0>>],
     velocities |-> [i \in 1..MaxParticles |-> <<0, 0, 0>>],
     active |-> FALSE,
     weather_type |-> "Clear",
     updates |-> 0,
     last_call |-> "none",
     player |-> <<0, 0, 0>>]

\* set_weather, lines 30-54; rnd[i] is the position np.random.uniform draws
\* for particle i
SetWeatherOf(ws, type_name, rnd) ==
    LET w1 == [ws EXCEPT !.weather_type = type_name,
                         !.active = (type_name # "Clear"),
                         !.last_call = "set_weather"]
        fall == IF type_name = "Rain" THEN 0 - 20 * FxOne ELSE 0 - 2 * FxOne
    IN IF ~w1.active THEN w1
       ELSE [w1 EXCEPT !.positions = rnd,
                       !.velocities = IF type_name \in {"Rain", "Snow"}
                                      THEN [i \in 1..MaxParticles |-> <<0, fall, 0>>]
                                      ELSE @]

\* lines 83 and 87: the coordinate wrapped around the player's
WrapFMod(c, p, extent) == p + FMod((c - p) + extent, 2 * extent) - extent

Wrap(c, p, extent) == p + PyMod((c - p) + extent, 2 * extent) - extent

\* lines 90-94: a particle below the floor goes up by the height of the box
ResetY(y) == IF y < 0 - 2 * FxOne THEN y + (15 * FxOne + 2 * FxOne) ELSE y

\* velocity * delta_time with delta_time a number of milliseconds
TimesDt(v, ms) == (v \div 1000) * ms

\* update, lines 56-94; noise[i] is the <<x, z>> of the snow noise drawn for
\* particle i, already multiplied by delta_time
WeatherUpdateOf(ws, ms, player_pos, noise) ==
    IF ~ws.active THEN ws
    ELSE LET moved(i) ==
                 LET q == ws.positions[i]
                     v == ws.velocities[i]
                     n == IF ws.weather_type = "Snow" THEN noise[i] ELSE <<0, 0>>
                 IN <<q[1] + TimesDt(v[1], ms) + n[1],
                      q[2] + TimesDt(v[2], ms),
                      q[3] + TimesDt(v[3], ms) + n[2]>>
         IN [ws EXCEPT !.positions =
                          [i \in 1..MaxParticles |->
                              <<Wrap(moved(i)[1], player_pos[1], ws.extent),
                                ResetY(moved(i)[2]),
                                Wrap(moved(i)[3], player_pos[3], ws.extent)>>],
                       !.updates = @ + 1,
                       !.last_call = "update",
                       !.player = player_pos]

-----------------------------------------------------------------------------
(* Arithmetic of the surface generators *)

\* a * b of two floats, b of magnitude at most 1.0 (a cosine or a sine);
\* the product is formed in pieces that stay inside the machine integers
MulFx(a, b) ==
    LET sgn == IF (a < 0) = (b < 0) THEN 1 ELSE 0 - 1
        x == IF a < 0 THEN 0 - a ELSE a
        y == IF b < 0 THEN 0 - b ELSE b
        xH == x \div 10000
        xL == x % 10000
        yH == y \div 10000
        yL == y % 10000
    IN sgn * (xH * yH * 10 + (xH * yL + xL * yH + (xL * yL) \div 10000) \div 1000)

\* n / d rounded to the nearest unit
DivRound(n, d) ==
    IF n >= 0 THEN (2 * n + d) \div (2 * d) ELSE 0 - ((2 * (0 - n) + d) \div (2 * d))

\* math.sin of 0, 6, ..., 90 degrees
SinTable ==
    <<0, 1045285, 2079117, 3090170, 4067366, 5000000, 5877853, 6691306,
      7431448, 8090170, 8660254, 9135455, 9510565, 9781476, 9945219, 10000000>>

\* math.sin(math.radians(d)) for d a multiple of 6 degrees
SinDeg(d) ==
    LET r == d % 360
    IN IF r <= 90 THEN SinTable[(r \div 6) + 1]
       ELSE IF r <= 180 THEN SinTable[((180 - r) \div 6) + 1]
       ELSE IF r <= 270 THEN 0 - SinTable[((r - 180) \div 6) + 1]
       ELSE 0 - SinTable[((360 - r) \div 6) + 1]

CosDeg(d) == SinDeg(d + 90)

-----------------------------------------------------------------------------
(* OpenGLWidget._generate_sor (modeler_opengl.py) *)

\* angle_step = 360.0 / num_slices, in degrees
AngleStep(num_slices) == 360 \div num_slices

\* lines 703-713: the vertices of one path, slice by slice
SorPathVertices(path, num_slices, rotation_axis) ==
    LET n == Len(path)
    IN [q \in 1..(RangeLen(num_slices) * n) |->
          LET i == (q - 1) \div n
              pt == path[((q - 1) % n) + 1]
              theta == i * AngleStep(num_slices)
          IN IF rotation_axis = "Y"
             THEN <<MulFx(pt[1], CosDeg(theta)), pt[2],
                    0 - MulFx(pt[1], SinDeg(theta))>>
             ELSE <<pt[1], MulFx(pt[2], CosDeg(theta)),
                    MulFx(pt[2], SinDeg(theta))>>]

\* a plausible slip: an open path is given as many segments as a closed one
NumSegsAlwaysClosed(num_pts, is_closed) == num_pts

\* line 717
NumSegs(num_pts, is_closed) == IF is_closed THEN num_pts ELSE num_pts - 1

\* line 720
NextSlice(i, num_slices) == (i + 1) % num_slices

\* lines 716-727: the quads of one path whose vertices start at vertex_offset
SorPathFaces(num_pts, is_closed, num_slices, vertex_offset) ==
    LET num_segs == NumSegs(num_pts, is_closed)
    IN [q \in 1..(RangeLen(num_slices) * RangeLen(num_segs)) |->
          LET i == (q - 1) \div num_segs
              j == (q - 1) % num_segs
              next_i == NextSlice(i, num_slices)
              base == vertex_offset
              p1 == base + i * num_pts + j
              p2 == base + i * num_pts + ((j + 1) % num_pts)
              p3 == base + next_i * num_pts + ((j + 1) % num_pts)
              p4 == base + next_i * num_pts + j
          IN <<p1, p4, p3, p2>>]

\* the loop over self.paths from path k on; m holds sor_vertices and
\* sor_faces, vertex_offset the vertices of the paths before k
RECURSIVE SorFrom(_, _, _, _, _, _)
SorFrom(paths, k, num_slices, rotation_axis, vertex_offset, m) ==
    IF k > Len(paths) THEN m
    ELSE LET path == paths[k].points
         IN IF Len(path) < 2
            THEN SorFrom(paths, k + 1, num_slices, rotation_axis, vertex_offset, m)
            ELSE LET vs == SorPathVertices(path, num_slices, rotation_axis)
                     fs == SorPathFaces(Len(path), paths[k].closed, num_slices,
                                        vertex_offset)
                 IN SorFrom(paths, k + 1, num_slices, rotation_axis,
                            vertex_offset + Len(vs),
                            [v |-> m.v \o vs, f |-> m.f \o fs])

EmptyMesh == [v |-> <<>>, f |-> <<>>]

GenerateSor(paths, num_slices, rotation_axis) ==
    SorFrom(paths, 1, num_slices, rotation_axis, 0, EmptyMesh)

-----------------------------------------------------------------------------
(* OpenGLWidget._generate_sweep (modeler_opengl.py) *)

SweepSteps == 30

\* t * self.sweep_twist for t = k / steps, in degrees
SweepAngle(k, sweep_twist) == (k * (sweep_twist \div SweepSteps)) \div FxOne

\* (t - 0.5) * self.sweep_length for t = k / steps
SweepZ(k, sweep_length) ==
    DivRound((2 * k - SweepSteps) * (sweep_length \div 20), SweepSteps \div 10)

\* lines 750-751: the point (x, y) turned by deg degrees
Rotate(x, y, deg) ==
    <<MulFx(x, CosDeg(deg)) - MulFx(y, SinDeg(deg)),
      MulFx(x, SinDeg(deg)) + MulFx(y, CosDeg(deg))>>

\* lines 743-753: the steps + 1 layers of one path
SweepPathVertices(path, sweep_length, sweep_twist) ==
    LET n == Len(path)
    IN [q \in 1..((SweepSteps + 1) * n) |->
          LET k == (q - 1) \div n
              pt == path[((q - 1) % n) + 1]
              r == Rotate(pt[1], pt[2], SweepAngle(k, sweep_twist))
          IN <<r[1], r[2], SweepZ(k, sweep_length)>>]

\* lines 756-770: the side quads of one path, layer by layer: num_pts - 1
\* quads, then the quad that joins the last point to the first when closed
SweepSideFaces(num_pts, is_closed, start_v_idx) ==
    LET per == (num_pts - 1) + (IF is_closed THEN 1 ELSE 0)
    IN [q \in 1..(SweepSteps * per) |->
          LET k == (q - 1) \div per
              i == (q - 1) % per
          IN IF i < num_pts - 1
             THEN <<start_v_idx + k * num_pts + i,
                    start_v_idx + k * num_pts + (i + 1),
                    start_v_idx + (k + 1) * num_pts + (i + 1),
                    start_v_idx + (k + 1) * num_pts + i>>
             ELSE <<start_v_idx + k * num_pts + (num_pts - 1),
                    start_v_idx + k * num_pts + 0,
                    start_v_idx + (k + 1) * num_pts + 0,
                    start_v_idx + (k + 1) * num_pts + (num_pts - 1)>>]

\* sum(p[c] for p in path)
RECURSIVE SumPoints(_, _, _)
SumPoints(path, c, n) == IF n = 0 THEN 0 ELSE SumPoints(path, c, n - 1) + path[n][c]

\* a plausible slip: the index of the centre is taken after it is appended
CentreIndexAfterAppend(vertex_count) == vertex_count + 1

\* lines 779 and 790: c_idx = len(self.sor_vertices), before the append
CentreIndex(vertex_count) == vertex_count

\* lines 783-787 and 797-801: the triangles of one cap around layer; the
\* loop breaks at the last point of an open path
CapFaces(num_pts, is_closed, layer, c_idx, reversed) ==
    [q \in 1..(IF is_closed THEN num_pts ELSE num_pts - 1) |->
        LET i == q - 1
            curr == layer + i
            next_p == layer + ((i + 1) % num_pts)
        IN IF reversed THEN <<c_idx, next_p, curr>> ELSE <<c_idx, curr, next_p>>]

\* lines 773-801: the two caps of one path; m is the mesh with the path's
\* layers and side quads
SweepCaps(path, is_closed, sweep_length, sweep_twist, start_v_idx, m) ==
    LET num_pts == Len(path)
        cx == DivRound(SumPoints(path, 1, num_pts), num_pts)
        cy == DivRound(SumPoints(path, 2, num_pts), num_pts)
        c1 == CentreIndex(Len(m.v))
        v1 == Append(m.v, <<cx, cy, 0 - (sweep_length \div 2)>>)
        f1 == m.f \o CapFaces(num_pts, is_closed, start_v_idx, c1, TRUE)
        c2 == CentreIndex(Len(v1))
        rc == Rotate(cx, cy, SweepAngle(SweepSteps, sweep_twist))
        v2 == Append(v1, <<rc[1], rc[2], sweep_length \div 2>>)
        f2 == f1 \o CapFaces(num_pts, is_closed,
                             start_v_idx + SweepSteps * num_pts, c2, FALSE)
    IN [v |-> v2, f |-> f2]

\* the loop over self.paths from path k on; m holds sor_vertices, sor_faces
RECURSIVE SweepFrom(_, _, _, _, _, _)
SweepFrom(paths, k, sweep_length, sweep_twist, sweep_caps, m) ==
    IF k > Len(paths) THEN m
    ELSE LET path == paths[k].points
             start_v_idx == Len(m.v)
         IN IF Len(path) < 2
            THEN SweepFrom(paths, k + 1, sweep_length, sweep_twist, sweep_caps, m)
            ELSE LET m1 == [v |-> m.v \o SweepPathVertices(path, sweep_length,
                                                           sweep_twist),
                            f |-> m.f \o SweepSideFaces(Len(path), paths[k].closed,
                                                        start_v_idx)]
                     m2 == IF sweep_caps /\ Len(path) > 2
                           THEN SweepCaps(path, paths[k].closed, sweep_length,
                                          sweep_twist, start_v_idx, m1)
                           ELSE m1
                 IN SweepFrom(paths, k + 1, sweep_length, sweep_twist,
                              sweep_caps, m2)

GenerateSweep(paths, sweep_length, sweep_twist, sweep_caps) ==
    SweepFrom(paths, 1, sweep_length, sweep_twist, sweep_caps, EmptyMesh)

-----------------------------------------------------------------------------
(* OpenGLWidget of modeler_opengl.py: state, model generation, editing *)

EmptyPath == [points |-> <<>>, closed |-> FALSE]

\* __init__, lines 40-82; status is the outcome of the last load_model
NewModeler ==
    [view_mode |-> "2D",
     paths |-> <<EmptyPath>>,
     current_path_idx |-> 0,
     dragging_point |-> None,
     rotation_axis |-> "Y",
     num_slices |-> 30,
     modeling_mode |-> 0,
     sweep_length |-> 10 * FxOne,
     sweep_twist |-> 0,
     sweep_caps |-> FALSE,
     sor_vertices |-> <<>>,
     sor_normals |-> <<>>,
     sor_faces |-> <<>>,
     render_mode |-> 1,
     model_color |-> <<0, 8 * FxTenth, 8 * FxTenth>>,
     vbo |-> 0,                \* how many of the six vbo_* fields hold a buffer
     vbo_initialized |-> FALSE,
     gl_buffers |-> 0,         \* history: buffers generated and not deleted
     status |-> "none"]

\* _cleanup_vbos, lines 399-417
ModelerCleanupVbos(w) ==
    [w EXCEPT !.gl_buffers = @ - w.vbo, !.vbo = 0, !.vbo_initialized = FALSE]

\* three buffers for the quads and three for the triangles, lines 466-507
ModelerBufferCount(faces) ==
    (IF \E i \in 1..Len(faces) : Len(faces[i]) = 4 THEN 3 ELSE 0)
    + (IF \E i \in 1..Len(faces) : Len(faces[i]) = 3 THEN 3 ELSE 0)

\* _create_vbos, lines 419-510 (use_gpu_acceleration keeps its initial
\* value True)
ModelerCreateVbos(w) ==
    IF w.sor_vertices = <<>> \/ w.sor_faces = <<>> THEN w
    ELSE LET c == ModelerCleanupVbos(w)
         IN [c EXCEPT !.vbo = ModelerBufferCount(c.sor_faces),
                      !.gl_buffers = @ + ModelerBufferCount(c.sor_faces),
                      !.vbo_initialized = TRUE]

\* calculate_normals: one normal per vertex (the directions are not
\* modelled); an exception inside is caught inside and leaves the list at
\* its full length
CalculateNormals(w) ==
    [w EXCEPT !.sor_normals = [i \in 1..Len(w.sor_vertices) |-> "normal"]]

\* generate_model, lines 632-653; _generate_sor divides by num_slices, and
\* the exception leaves the three lists empty
GenerateModel(w) ==
    LET w0 == [w EXCEPT !.sor_vertices = <<>>, !.sor_normals = <<>>,
                        !.sor_faces = <<>>]
    IN IF w.modeling_mode = 0 /\ w.num_slices = 0 THEN w0
       ELSE LET m == IF w.modeling_mode = 0
                     THEN GenerateSor(w.paths, w.num_slices, w.rotation_axis)
                     ELSE GenerateSweep(w.paths, w.sweep_length, w.sweep_twist,
                                        w.sweep_caps)
            IN ModelerCreateVbos(
                   CalculateNormals([w0 EXCEPT !.sor_vertices = m.v,
                                               !.sor_faces = m.f]))

\* clear_points, lines 962-969: the paths, the vertices and the faces are
\* emptied and the buffers deleted; sor_normals is not assigned
ClearPointsOf(w) ==
    ModelerCleanupVbos(
        [w EXCEPT !.paths = <<EmptyPath>>, !.current_path_idx = 0,
                  !.sor_vertices = <<>>, !.sor_faces = <<>>])

\* the setters regenerate the model when the 3D view is shown
Regenerate(w) == IF w.view_mode = "3D" THEN GenerateModel(w) ELSE w

\* math.hypot(pt[0] - wx, pt[1] - wy) < snap_threshold, compared in 1e-3 units
NearPoint(pt, p) ==
    LET dx == (pt[1] - p[1]) \div 10000
        dy == (pt[2] - p[2]) \div 10000
    IN dx * dx + dy * dy < 300 * 300

\* lines 567-571: the first point hit, as <<path index, point index>>
HitPoints(paths, p) ==
    UNION {{<<i - 1, j - 1>> :
              j \in {k \in 1..Len(paths[i].points) :
                        NearPoint(paths[i].points[k], p)}} :
           i \in 1..Len(paths)}

FirstHit(H) ==
    CHOOSE h \in H : \A g \in H : h[1] < g[1] \/ (h[1] = g[1] /\ h[2] <= g[2])

\* mousePressEvent in the 2D view at world position p
MousePressEvent2D(w, p) ==
    LET H == HitPoints(w.paths, p)
    IN IF H # {} THEN [w EXCEPT !.dragging_point = Some(FirstHit(H))]
       ELSE [w EXCEPT !.paths[w.current_path_idx + 1].points = Append(@, p)]

\* close_current_path, lines 982-988
CloseCurrentPathOf(w) ==
    IF w.paths[w.current_path_idx + 1].points # <<>>
    THEN [w EXCEPT !.paths = Append([@ EXCEPT ![w.current_path_idx + 1].closed = TRUE],
                                    EmptyPath),
                   !.current_path_idx = @ + 1]
    ELSE w

\* del s[i] of a list, i counted from 1
RemoveAt(s, i) == [k \in 1..(Len(s) - 1) |-> IF k < i THEN s[k] ELSE s[k + 1]]

\* delete_point, lines 971-980: a path left without points is removed when
\* it is not the only one, and the last path becomes the current one; the
\* closed flag is not touched
DeletePointOf(w, path_idx, point_idx) ==
    IF 0 <= path_idx /\ path_idx < Len(w.paths)
       /\ 0 <= point_idx /\ point_idx < Len(w.paths[path_idx + 1].points)
    THEN LET points == RemoveAt(w.paths[path_idx + 1].points, point_idx + 1)
             w1 == [w EXCEPT !.paths[path_idx + 1].points = points]
         IN IF points = <<>> /\ Len(w1.paths) > 1
            THEN LET rest == RemoveAt(w1.paths, path_idx + 1)
                 IN [w1 EXCEPT !.paths = rest,
                               !.current_path_idx =
                                  IF Len(rest) - 1 > 0 THEN Len(rest) - 1 ELSE 0]
            ELSE w1
    ELSE w

\* set_view_mode, lines 954-960
SetViewModeOf(w, mode) ==
    IF w.view_mode # mode
    THEN LET w1 == [w EXCEPT !.view_mode = mode]
         IN IF mode = "3D" /\ \E i \in 1..Len(w.paths) : w.paths[i].points # <<>>
            THEN GenerateModel(w1) ELSE w1
    ELSE w

-----------------------------------------------------------------------------
(* OpenGLWidget.save_model (modeler_opengl.py) *)

\* lines 813-815
ModelHeader(w) ==
    <<WordTok("v6"), IntTok(w.num_slices), WordTok(w.rotation_axis),
      IntTok(w.render_mode),
      FloatTok(w.model_color[1]), FloatTok(w.model_color[2]),
      FloatTok(w.model_color[3]),
      IntTok(w.modeling_mode), FloatTok(w.sweep_length),
      FloatTok(w.sweep_twist), IntTok(IF w.sweep_caps THEN 1 ELSE 0)>>

\* line 818: valid_paths = [p for p in self.paths if p['points']]
HasPoints(p) == p.points # <<>>
ValidPaths(paths) == SelectSeq(paths, HasPoints)

\* lines 821-824: one path record: count, closed flag, points
PathLines(p) ==
    << <<IntTok(Len(p.points))>>, <<IntTok(IF p.closed THEN 1 ELSE 0)>> >>
    \o [i \in 1..Len(p.points) |->
          <<FloatTok(p.points[i][1]), FloatTok(p.points[i][2])>>]

RECURSIVE PathsLines(_, _)
PathsLines(ps, k) ==
    IF k > Len(ps) THEN <<>> ELSE PathLines(ps[k]) \o PathsLines(ps, k + 1)

\* line 834: the number of indices, then the indices
FaceLines(fs) ==
    [i \in 1..Len(fs) |->
        <<IntTok(Len(fs[i]))>> \o [j \in 1..Len(fs[i]) |-> IntTok(fs[i][j])]]

\* lines 811-834: the file save_model writes
ModelFileOf(w) ==
    << ModelHeader(w) >>
    \o << <<IntTok(Len(ValidPaths(w.paths)))>> >>
    \o PathsLines(ValidPaths(w.paths), 1)
    \o << <<IntTok(Len(w.sor_vertices))>> >> \o VertexLines(w.sor_vertices)
    \o << <<IntTok(Len(w.sor_faces))>> >> \o FaceLines(w.sor_faces)

-----------------------------------------------------------------------------
(* OpenGLWidget.load_model (modeler_opengl.py) *)

\* the text of a token, as parts[2] is stored in rotation_axis
TokText(t) == IF t.k = "w" THEN t.s ELSE t

\* a plausible slip: sweep_caps is read from the modeling mode field
CapsFieldWrong(parts) == IF Len(parts) >= 11 THEN TokInt(parts[8]) # 0 ELSE FALSE

\* line 857: bool(int(parts[10])) if len(parts) >= 11 else False
CapsField(parts) == IF Len(parts) >= 11 THEN TokInt(parts[11]) # 0 ELSE FALSE

\* lines 848-861: the header; the fields are assigned one by one, so a
\* field that raises leaves the earlier ones assigned
LoadHeader(w, parts) ==
    IF Len(parts) = 0 THEN [ok |-> FALSE, w |-> w]
    ELSE IF parts[1] # WordTok("v6") THEN [ok |-> TRUE, w |-> w]
    ELSE IF Len(parts) < 2 \/ ~TokIsInt(parts[2]) THEN [ok |-> FALSE, w |-> w]
    ELSE LET w1 == [w EXCEPT !.num_slices = TokInt(parts[2])]
    IN IF Len(parts) < 3 THEN [ok |-> FALSE, w |-> w1]
    ELSE LET w2 == [w1 EXCEPT !.rotation_axis = TokText(parts[3])]
    IN IF Len(parts) < 4 \/ ~TokIsInt(parts[4]) THEN [ok |-> FALSE, w |-> w2]
    ELSE LET w3 == [w2 EXCEPT !.render_mode = TokInt(parts[4])]
    IN IF Len(parts) < 7 \/ \E i \in 5..7 : ~TokIsFloat(parts[i])
       THEN [ok |-> FALSE, w |-> w3]
    ELSE LET w4 == [w3 EXCEPT !.model_color =
                        <<TokFloat(parts[5]), TokFloat(parts[6]), TokFloat(parts[7])>>]
    IN IF Len(parts) < 8 \/ ~TokIsInt(parts[8]) THEN [ok |-> FALSE, w |-> w4]
    ELSE LET w5 == [w4 EXCEPT !.modeling_mode = TokInt(parts[8])]
    IN IF Len(parts) < 9 \/ ~TokIsFloat(parts[9]) THEN [ok |-> FALSE, w |-> w5]
    ELSE LET w6 == [w5 EXCEPT !.sweep_length = TokFloat(parts[9])]
    IN IF Len(parts) < 10 \/ ~TokIsFloat(parts[10]) THEN [ok |-> FALSE, w |-> w6]
    ELSE LET w7 == [w6 EXCEPT !.sweep_twist = TokFloat(parts[10])]
    IN IF Len(parts) >= 11 /\ ~TokIsInt(parts[11]) THEN [ok |-> FALSE, w |-> w7]
    ELSE [ok |-> TRUE, w |-> [w7 EXCEPT !.sweep_caps = CapsField(parts)]]

\* lines 870-875: is lines[idx] a closed flag?  An IndexError is swallowed.
HasFlag(lines, idx) == PyOK(lines, idx) /\ IsFlagLine(PyAt(lines, idx))

\* lines 866-881: num_paths path records from idx on, appended to acc
RECURSIVE ReadPaths(_, _, _, _)
ReadPaths(lines, idx, n, acc) ==
    IF n = 0 THEN [ok |-> TRUE, idx |-> idx, out |-> acc]
    ELSE IF ~PyOK(lines, idx) \/ ~IsIntLine(PyAt(lines, idx))
    THEN [ok |-> FALSE, idx |-> idx, out |-> acc]
    ELSE LET num_pts == TokInt(PyAt(lines, idx)[1])
             flag == HasFlag(lines, idx + 1)
             is_closed == flag /\ TokInt(PyAt(lines, idx + 1)[1]) # 0
             pts == ParseFloatLines(lines, idx + 1 + (IF flag THEN 1 ELSE 0),
                                    RangeLen(num_pts), <<>>)
         IN IF ~pts.ok THEN [ok |-> FALSE, idx |-> pts.idx, out |-> acc]
            ELSE ReadPaths(lines, pts.idx, n - 1,
                           Append(acc, [points |-> pts.out, closed |-> is_closed]))

\* lines 896-899: n face lines from idx on: the integers after the first
ParseFaceLines(lines, idx, n) ==
    LET bad == {i \in LoopRange(lines, idx, n) :
                   ~PyOK(lines, idx + i) \/ ~IsIntsLine(PyAt(lines, idx + i))}
        k == FirstBad(bad, n)
    IN [ok |-> bad = {}, idx |-> idx + k,
        out |-> [i \in 1..k |-> Tail1(IntsOf(PyAt(lines, idx + i - 1)))]]

FailedModel(w) == [w EXCEPT !.status = "failed"]

\* lines 886-912: vertices, faces, normals, the switch to the 3D view
LoadModelMesh(w, lines, idx) ==
    IF ~PyOK(lines, idx) \/ ~IsIntLine(PyAt(lines, idx)) THEN FailedModel(w)
    ELSE LET vs == ParseFloatLines(lines, idx + 1,
                                   RangeLen(TokInt(PyAt(lines, idx)[1])), <<>>)
             w1 == [w EXCEPT !.sor_vertices = vs.out]
         IN IF ~vs.ok \/ ~PyOK(lines, vs.idx) \/ ~IsIntLine(PyAt(lines, vs.idx))
            THEN FailedModel(w1)
            ELSE LET fs == ParseFaceLines(lines, vs.idx + 1,
                                          RangeLen(TokInt(PyAt(lines, vs.idx)[1])))
                     w2 == [w1 EXCEPT !.sor_faces = fs.out]
                 IN IF ~fs.ok THEN FailedModel(w2)
                    ELSE [ModelerCreateVbos(CalculateNormals(w2))
                             EXCEPT !.view_mode = "3D", !.status = "loaded"]

\* lines 863-884: the path records
LoadModelPaths(w, lines, idx) ==
    IF ~PyOK(lines, idx) \/ ~IsIntLine(PyAt(lines, idx)) THEN FailedModel(w)
    ELSE LET ps == ReadPaths(lines, idx + 1,
                             RangeLen(TokInt(PyAt(lines, idx)[1])), <<>>)
             w1 == [w EXCEPT !.paths = ps.out]
         IN IF ~ps.ok THEN FailedModel(w1)
            ELSE LoadModelMesh([w1 EXCEPT !.paths = Append(ps.out, EmptyPath),
                                          !.current_path_idx = Len(ps.out)],
                               lines, ps.idx)

\* load_model: the widget after the call; status is "loaded" when the call
\* reaches line 914 and "failed" when it ends in the except branch
LoadModelResult(w, lines) ==
    LET w0 == [w EXCEPT !.status = "none"]
    IN IF Len(lines) = 0 THEN FailedModel(w0)
       ELSE LET h == LoadHeader(w0, lines[1])
            IN IF ~h.ok THEN FailedModel(h.w)
               ELSE LoadModelPaths(h.w, lines, 1)

-----------------------------------------------------------------------------
(* OpenGLWidget of opengl_haeksim.py, the SOR modeler *)

\* __init__, lines 36-58; status is the outcome of the last load_model
NewHaeksim ==
    [view_mode |-> "2D",
     rotation_axis |-> "Y",
     num_slices |-> 30,
     paths |-> <<EmptyPath>>,
     current_path_idx |-> 0,
     dragging_point |-> None,
     sor_vertices |-> <<>>,
     sor_normals |-> <<>>,
     sor_faces |-> <<>>,
     render_mode |-> 1,
     model_color |-> <<0, 8 * FxTenth, 8 * FxTenth>>,
     status |-> "none"]

\* generate_sor_model, lines 399-488: the same vertices and quads as
\* _generate_sor, and one normal appended with every vertex; the division
\* by num_slices raises inside the try and leaves the lists empty
HaeksimGenerateSorModel(w) ==
    LET w0 == [w EXCEPT !.sor_vertices = <<>>, !.sor_normals = <<>>,
                        !.sor_faces = <<>>]
    IN IF w.num_slices = 0 THEN w0
       ELSE LET m == GenerateSor(w.paths, w.num_slices, w.rotation_axis)
            IN [w0 EXCEPT !.sor_vertices = m.v,
                          !.sor_normals = [i \in 1..Len(m.v) |-> "normal"],
                          !.sor_faces = m.f]

\* clear_points, lines 674-682: sor_normals is not assigned
HaeksimClearPoints(w) ==
    [w EXCEPT !.paths = <<EmptyPath>>, !.current_path_idx = 0,
              !.dragging_point = None,
              !.sor_vertices = <<>>, !.sor_faces = <<>>]

\* mousePressEvent, lines 189-216
HaeksimMousePressEvent(w, p) ==
    IF w.view_mode # "2D" THEN w
    ELSE LET H == HitPoints(w.paths, p)
         IN IF H # {} THEN [w EXCEPT !.dragging_point = Some(FirstHit(H))]
            ELSE [w EXCEPT !.paths[w.current_path_idx + 1].points = Append(@, p)]

\* close_current_path, lines 699-713
HaeksimCloseCurrentPath(w) ==
    IF Len(w.paths[w.current_path_idx + 1].points) < 2 THEN w
    ELSE [w EXCEPT !.paths = Append([@ EXCEPT ![w.current_path_idx + 1].closed = TRUE],
                                    EmptyPath),
                   !.current_path_idx = @ + 1]

\* delete_point, lines 684-697: a path left with fewer than 2 points is
\* opened again; no path is removed
HaeksimDeletePoint(w, path_idx, point_idx) ==
    IF 0 <= path_idx /\ path_idx < Len(w.paths)
       /\ 0 <= point_idx /\ point_idx < Len(w.paths[path_idx + 1].points)
    THEN LET points == RemoveAt(w.paths[path_idx + 1].points, point_idx + 1)
         IN [w EXCEPT !.paths[path_idx + 1] =
                [points |-> points,
                 closed |-> IF Len(points) < 2 THEN FALSE ELSE @.closed]]
    ELSE w

HaeksimRegenerate(w) ==
    IF w.view_mode = "3D" THEN HaeksimGenerateSorModel(w) ELSE w

\* set_rotation_axis, lines 717-724
HaeksimSetRotationAxis(w, axis) ==
    IF axis \in {"X", "Y"} /\ w.rotation_axis # axis
    THEN HaeksimRegenerate([w EXCEPT !.rotation_axis = axis])
    ELSE w

\* set_num_slices, lines 726-733
HaeksimSetNumSlices(w, value) ==
    IF w.num_slices # value
    THEN HaeksimRegenerate([w EXCEPT !.num_slices = value])
    ELSE w

\* set_view_mode, lines 735-748
HaeksimSetViewMode(w, mode) ==
    IF w.view_mode # mode
    THEN LET w1 == [w EXCEPT !.view_mode = mode]
             has_points == \E i \in 1..Len(w.paths) : Len(w.paths[i].points) > 1
         IN IF mode = "3D" /\ has_points THEN HaeksimGenerateSorModel(w1) ELSE w1
    ELSE w

\* is the token spelled with a '.'?
TokHasDot(t) == t.k = "f"

\* lines 583-589: is the line after next three tokens with a '.' each?
IsV5(lines, idx) ==
    /\ idx + 1 < Len(lines)
    /\ LET parts == PyAt(lines, idx + 1)
       IN Len(parts) = 3 /\ \A i \in 1..3 : TokHasDot(parts[i])

\* lines 632-652: vertices and faces are read into new lists and replace
\* the old ones at the end; the normals are left as they were
HaeksimLoadMesh(w, lines, idx) ==
    IF ~PyOK(lines, idx) \/ ~IsIntLine(PyAt(lines, idx)) THEN FailedModel(w)
    ELSE LET vs == ParseFloatLines(lines, idx + 1,
                                   RangeLen(TokInt(PyAt(lines, idx)[1])), <<>>)
         IN IF ~vs.ok \/ ~PyOK(lines, vs.idx) \/ ~IsIntLine(PyAt(lines, vs.idx))
            THEN FailedModel(w)
            ELSE LET fs == ParseFaceLines(lines, vs.idx + 1,
                                          RangeLen(TokInt(PyAt(lines, vs.idx)[1])))
                 IN IF ~fs.ok THEN FailedModel(w)
                    ELSE [w EXCEPT !.sor_vertices = vs.out,
                                   !.sor_faces = fs.out,
                                   !.view_mode = "3D",
                                   !.status = "loaded"]

\* lines 604-630: the path records, read as load_model of the modeler does
HaeksimLoadPaths(w, lines, idx, num_paths) ==
    LET ps == ReadPaths(lines, idx, RangeLen(num_paths), <<>>)
        w1 == [w EXCEPT !.paths = ps.out]
    IN IF ~ps.ok THEN FailedModel(w1)
       ELSE HaeksimLoadMesh([w1 EXCEPT !.paths = Append(ps.out, EmptyPath),
                                       !.current_path_idx = Len(ps.out)],
                            lines, ps.idx)

\* load_model, lines 551-672
HaeksimLoadModelResult(w, lines) ==
    LET w0 == [w EXCEPT !.status = "none"]
    IN IF ~PyOK(lines, 0) \/ ~IsIntLine(PyAt(lines, 0)) THEN FailedModel(w0)
       ELSE LET w1 == [w0 EXCEPT !.num_slices = TokInt(PyAt(lines, 0)[1])]
       IN IF ~PyOK(lines, 1) \/ ~IsIntLine(PyAt(lines, 1)) THEN FailedModel(w1)
       ELSE LET w2 == [w1 EXCEPT !.rotation_axis =
                           IF TokInt(PyAt(lines, 1)[1]) = 1 THEN "Y" ELSE "X"]
       IN IF ~PyOK(lines, 2) THEN FailedModel(w2)
       ELSE IF IsV5(lines, 2)
       THEN IF ~IsIntLine(PyAt(lines, 2)) THEN FailedModel(w2)
            ELSE LET w3 == [w2 EXCEPT !.render_mode = TokInt(PyAt(lines, 2)[1])]
            IN IF ~IsFloatsLine(PyAt(lines, 3)) THEN FailedModel(w3)
            ELSE LET w4 == [w3 EXCEPT !.model_color = FloatsOf(PyAt(lines, 3))]
            IN IF ~PyOK(lines, 4) \/ ~IsIntLine(PyAt(lines, 4)) THEN FailedModel(w4)
            ELSE HaeksimLoadPaths(w4, lines, 5, TokInt(PyAt(lines, 4)[1]))
       ELSE LET w3 == [w2 EXCEPT !.render_mode = 1,
                                 !.model_color = <<0, 8 * FxTenth, 8 * FxTenth>>]
            IN IF ~IsIntLine(PyAt(lines, 2)) THEN FailedModel(w3)
               ELSE HaeksimLoadPaths(w3, lines, 3, TokInt(PyAt(lines, 2)[1]))

-----------------------------------------------------------------------------
(* The modeler's operations *)

\* the world position of the k-th click of a session; the clicks are at
\* least one unit apart
ClickAt(k) == <<((k % 3) + 1) * FxOne, (k \div 3) * FxOne>>

\* the values the settings are changed to (their defaults are in NewModeler)
SliceChoices == {4}
AxisChoices == {"X"}
ModeChoices == {1}
CapsChoices == {TRUE}
RenderChoices == {3}

\* no file was found on disk
NoLegacy == [container |-> "none", paths |-> <<>>, nv |-> 0, defect |-> "none"]

\* the maze program's variables while another program runs
MazeIdle ==
    /\ req = <<1, 1>>
    /\ width = 1
    /\ height = 1
    /\ wall_thickness = FxOne
    /\ wall_height = FxOne
    /\ grid = NewGrid(1, 1)
    /\ stack = <<>>
    /\ mpc = "off"
    /\ pushed = [c \in {<<0, 0>>} |-> 0]
    /\ miro = NewWidget
    /\ game = NewGame
    /\ weather = NewWeather
    /\ window = NewWindow

mazeOnly == <<tool, req, width, height, wall_thickness, wall_height, grid, stack,
              mpc, pushed, miro>>

\* editing and the settings are explored until the model is saved
Editing == tool = "modeler" /\ file = <<>>

MousePress ==
    /\ Editing
    /\ modeler.view_mode = "2D"
    /\ clicks < MaxClicks
    /\ modeler' = MousePressEvent2D(modeler, ClickAt(clicks))
    /\ clicks' = clicks + 1
    /\ UNCHANGED <<mazeOnly, game, extraVars, file, saved, haeksim, legacy>>

CloseCurrentPath ==
    /\ Editing
    /\ modeler' = CloseCurrentPathOf(modeler)
    /\ UNCHANGED <<mazeOnly, game, extraVars, file, clicks, saved, haeksim, legacy>>

\* the button "Clear All Points"
ClearPoints ==
    /\ Editing
    /\ modeler' = ClearPointsOf(modeler)
    /\ UNCHANGED <<mazeOnly, game, extraVars, file, clicks, saved, haeksim, legacy>>

\* the button next to a point of the list; it is counted with the clicks
DeletePoint ==
    /\ Editing
    /\ clicks < MaxClicks
    /\ clicks' = clicks + 1
    /\ \E path_idx \in 0..(Len(modeler.paths) - 1) :
          \E point_idx \in 0..(Len(modeler.paths[path_idx + 1].points) - 1) :
             modeler' = DeletePointOf(modeler, path_idx, point_idx)
    /\ UNCHANGED <<mazeOnly, game, extraVars, file, saved, haeksim, legacy>>

\* set_num_slices, lines 929-932
SetNumSlices ==
    /\ Editing
    /\ \E slices \in SliceChoices :
          modeler' = Regenerate([modeler EXCEPT !.num_slices = slices])
    /\ UNCHANGED <<mazeOnly, game, extraVars, file, clicks, saved, haeksim, legacy>>

\* set_rotation_axis, lines 924-927
SetRotationAxis ==
    /\ Editing
    /\ \E axis \in AxisChoices :
          modeler' = Regenerate([modeler EXCEPT !.rotation_axis = axis])
    /\ UNCHANGED <<mazeOnly, game, extraVars, file, clicks, saved, haeksim, legacy>>

\* set_modeling_mode, lines 934-937
SetModelingMode ==
    /\ Editing
    /\ \E mode \in ModeChoices :
          modeler' = Regenerate([modeler EXCEPT !.modeling_mode = mode])
    /\ UNCHANGED <<mazeOnly, game, extraVars, file, clicks, saved, haeksim, legacy>>

\* set_sweep_caps, lines 949-952
SetSweepCaps ==
    /\ Editing
    /\ \E enabled \in CapsChoices :
          modeler' = Regenerate([modeler EXCEPT !.sweep_caps = enabled])
    /\ UNCHANGED <<mazeOnly, game, extraVars, file, clicks, saved, haeksim, legacy>>

\* the window's _on_render_mode_changed assigns the field
SetRenderMode ==
    /\ Editing
    /\ \E index \in RenderChoices :
          modeler' = [modeler EXCEPT !.render_mode = index]
    /\ UNCHANGED <<mazeOnly, game, extraVars, file, clicks, saved, haeksim, legacy>>

\* the view menu: the 3D view is chosen
SetViewMode ==
    /\ Editing
    /\ modeler' = SetViewModeOf(modeler, "3D")
    /\ UNCHANGED <<mazeOnly, game, extraVars, file, clicks, saved, haeksim, legacy>>

\* save_model, lines 807-838: nothing is written without vertices
SaveModel ==
    /\ Editing
    /\ modeler.sor_vertices # <<>>
    /\ file' = ModelFileOf(modeler)
    /\ saved' = Some(modeler)
    /\ UNCHANGED <<mazeOnly, game, extraVars, modeler, clicks, haeksim, legacy>>

\* load_model of the file on disk, by the widget that saved it or by the
\* widget of a modeler that was started again
LoadModel ==
    /\ tool = "modeler" \/ (tool = "files" /\ legacy.container = "modeler")
    /\ file # <<>>
    /\ modeler.status = "none"
    /\ \E w \in {modeler, NewModeler} : modeler' = LoadModelResult(w, file)
    /\ UNCHANGED <<mazeOnly, game, extraVars, file, clicks, saved, haeksim, legacy>>

ModelerInit ==
    /\ tool = "modeler"
    /\ MazeIdle
    /\ file = <<>>
    /\ modeler = NewModeler
    /\ clicks = 0
    /\ saved = None
    /\ haeksim = NewHaeksim
    /\ legacy = NoLegacy

ModelerNext ==
    \/ MousePress \/ CloseCurrentPath \/ ClearPoints \/ DeletePoint
    \/ SetNumSlices \/ SetRotationAxis \/ SetModelingMode
    \/ SetSweepCaps \/ SetRenderMode \/ SetViewMode
    \/ SaveModel \/ LoadModel

SpecModeler == ModelerInit /\ [][ModelerNext]_vars

-----------------------------------------------------------------------------
(* The SOR modeler's operations *)

HMousePress ==
    /\ tool = "haeksim"
    /\ haeksim.view_mode = "2D"
    /\ clicks < MaxClicks
    /\ haeksim' = HaeksimMousePressEvent(haeksim, ClickAt(clicks))
    /\ clicks' = clicks + 1
    /\ UNCHANGED <<mazeOnly, game, extraVars, file, modeler, saved, legacy>>

HClosePath ==
    /\ tool = "haeksim"
    /\ haeksim' = HaeksimCloseCurrentPath(haeksim)
    /\ UNCHANGED <<mazeOnly, game, extraVars, file, modeler, clicks, saved, legacy>>

HClearPoints ==
    /\ tool = "haeksim"
    /\ haeksim' = HaeksimClearPoints(haeksim)
    /\ UNCHANGED <<mazeOnly, game, extraVars, file, modeler, clicks, saved, legacy>>

HDeletePoint ==
    /\ tool = "haeksim"
    /\ clicks < MaxClicks
    /\ clicks' = clicks + 1
    /\ \E path_idx \in 0..(Len(haeksim.paths) - 1) :
          \E point_idx \in 0..(Len(haeksim.paths[path_idx + 1].points) - 1) :
             haeksim' = HaeksimDeletePoint(haeksim, path_idx, point_idx)
    /\ UNCHANGED <<mazeOnly, game, extraVars, file, modeler, saved, legacy>>

HSetNumSlices ==
    /\ tool = "haeksim"
    /\ \E value \in SliceChoices \cup {30} :
          haeksim' = HaeksimSetNumSlices(haeksim, value)
    /\ UNCHANGED <<mazeOnly, game, extraVars, file, modeler, clicks, saved, legacy>>

HSetRotationAxis ==
    /\ tool = "haeksim"
    /\ \E axis \in AxisChoices \cup {"Y"} :
          haeksim' = HaeksimSetRotationAxis(haeksim, axis)
    /\ UNCHANGED <<mazeOnly, game, extraVars, file, modeler, clicks, saved, legacy>>

HSetViewMode ==
    /\ tool = "haeksim"
    /\ \E mode \in {"2D", "3D"} : haeksim' = HaeksimSetViewMode(haeksim, mode)
    /\ UNCHANGED <<mazeOnly, game, extraVars, file, modeler, clicks, saved, legacy>>

\* load_model of a file found on disk
HLoadModel ==
    /\ tool = "files" /\ legacy.container = "haeksim"
    /\ haeksim.status = "none"
    /\ haeksim' = HaeksimLoadModelResult(haeksim, file)
    /\ UNCHANGED <<mazeOnly, game, extraVars, file, modeler, clicks, saved, legacy>>

HaeksimInit ==
    /\ tool = "haeksim"
    /\ MazeIdle
    /\ file = <<>>
    /\ modeler = NewModeler
    /\ clicks = 0
    /\ saved = None
    /\ haeksim = NewHaeksim
    /\ legacy = NoLegacy

HaeksimNext ==
    \/ HMousePress \/ HClosePath \/ HClearPoints \/ HDeletePoint
    \/ HSetNumSlices \/ HSetRotationAxis \/ HSetViewMode

-----------------------------------------------------------------------------
(* Files found on disk: written by hand or by an older version *)

\* a path record is written with 0, 1 or 2 points and with or without the
\* closed-flag line
PointCounts == {0, 1, 2}
FlagLines == {"none", "0", "1"}
PathShapes == [n : PointCounts, flag : FlagLines]
PathLists ==
    {<<>>} \cup {<<a>> : a \in PathShapes}
           \cup {<<a, b>> : a \in PathShapes, b \in PathShapes}
VertexCounts == {0, 1, 2}

\* the lines of the k-th path record
FoundPathLines(sh, k) ==
    << <<IntTok(sh.n)>> >>
    \o (IF sh.flag = "none" THEN <<>>
        ELSE << <<IntTok(IF sh.flag = "1" THEN 1 ELSE 0)>> >>)
    \o [i \in 1..sh.n |-> <<FloatTok(i * FxOne), FloatTok(k * FxOne)>>]

RECURSIVE FoundPathsLines(_, _)
FoundPathsLines(shs, k) ==
    IF k > Len(shs) THEN <<>>
    ELSE FoundPathLines(shs[k], k) \o FoundPathsLines(shs, k + 1)

\* the lines before the path count: the v6 header of the modeler, or the
\* slice count and the axis of the SOR modeler
FoundPrefix(container) ==
    IF container = "modeler" THEN << ModelHeader(NewModeler) >>
    ELSE << <<IntTok(30)>>, <<IntTok(1)>> >>

\* what is wrong with a malformed file: a vertex or face count that is one
\* more or one less than the records that follow, or a face that names the
\* vertex after the last one
Defects == {"vertex_count_high", "vertex_count_low",
            "face_count_high", "face_count_low", "index"}

\* the malformed files have one or two vertices and at most one path
DefectPathLists == {<<>>, <<[n |-> 1, flag |-> "1"]>>}

\* the vertex count, the face count and the last index of the face as the
\* file states them
FoundVertexCount(d) ==
    IF d.defect = "vertex_count_high" THEN d.nv + 1
    ELSE IF d.defect = "vertex_count_low" THEN d.nv - 1
    ELSE d.nv
FoundFaceCount(d) ==
    IF d.defect = "face_count_high" THEN (IF d.nv = 0 THEN 1 ELSE 2)
    ELSE IF d.defect = "face_count_low" THEN 0
    ELSE IF d.nv = 0 THEN 0 ELSE 1
FoundLastIndex(d) == IF d.defect = "index" THEN d.nv ELSE 0

\* nv vertices on the x axis and, when there is one, a face on the first
FoundFile(d) ==
    FoundPrefix(d.container)
    \o << <<IntTok(Len(d.paths))>> >> \o FoundPathsLines(d.paths, 1)
    \o << <<IntTok(FoundVertexCount(d))>> >>
    \o [i \in 1..d.nv |-> <<FloatTok(i * FxOne), FloatTok(0), FloatTok(0)>>]
    \o << <<IntTok(FoundFaceCount(d))>> >>
    \o (IF d.nv = 0 THEN <<>>
        ELSE << <<IntTok(3), IntTok(0), IntTok(0), IntTok(FoundLastIndex(d))>> >>)

\* the files found: well-formed files of both modelers, and malformed files
\* with the modeler's header
FoundFiles ==
    [container : {"modeler", "haeksim"}, paths : PathLists,
     nv : VertexCounts, defect : {"none"}]
    \cup [container : {"modeler"}, paths : DefectPathLists,
          nv : VertexCounts \ {0}, defect : Defects]

FilesInit ==
    /\ tool = "files"
    /\ MazeIdle
    /\ legacy \in FoundFiles
    /\ file = FoundFile(legacy)
    /\ modeler = NewModeler
    /\ clicks = 0
    /\ saved = None
    /\ haeksim = NewHaeksim

FilesNext == LoadModel \/ LoadMaze \/ HLoadModel

-----------------------------------------------------------------------------
(* The game's operations, on levels found on disk *)

\* a level: the rows of its grid (1 is a wall) and its floor heights as
\* <<gx, gz, height>>.  Both levels are a corridor one cell wide that is
\* entered at the top; the hills rise by 0.005, rise by 0.195 and drop by 0.4.
PlainLevel == [rows |-> << <<1, 0, 1>> >>, heights |-> <<>>]
HillsLevel ==
    [rows |-> << <<1, 0, 1>>, <<1, 0, 1>>, <<1, 0, 1>>, <<1, 0, 1>> >>,
     heights |-> << <<1, 0, 2 * FxTenth>>,
                    <<1, 1, 2 * FxTenth + FxOne \div 200>>,
                    <<1, 2, 4 * FxTenth>> >>]
Levels == {PlainLevel, HillsLevel}

\* the file of a level: one floor triangle, the floor heights, the grid
LevelFile(l) ==
    << <<WordTok("v7")>>, <<IntTok(0)>>, <<IntTok(3)>>,
       <<FloatTok(0), FloatTok(0), FloatTok(0)>>,
       <<FloatTok(FxOne), FloatTok(0), FloatTok(0)>>,
       <<FloatTok(0), FloatTok(0), FloatTok(FxOne)>>,
       <<IntTok(1)>>, <<IntTok(3), IntTok(0), IntTok(1), IntTok(2)>>,
       <<IntTok(Len(l.heights))>> >>
    \o [i \in 1..Len(l.heights) |->
          <<IntTok(l.heights[i][1]), IntTok(l.heights[i][2]),
            FloatTok(l.heights[i][3])>>]
    \o << <<IntTok(Len(l.rows[1])), IntTok(Len(l.rows))>> >>
    \o [i \in 1..Len(l.rows) |-> <<BitsTok(l.rows[i])>>]

\* the keys the player uses, and the speed setting in percent (main.py,
\* line 231: 100 is MOVE_SPEED)
KeyChoices == {"W", "A"}

\* a level with two turns, without floor heights
WalkLevel ==
    [rows |-> << <<1, 0, 1, 1>>, <<1, 0, 0, 1>>, <<1, 1, 0, 1>> >>,
     heights |-> <<>>]

\* a straight level with a raised tile: 0.3 is too high to step on
JumpLevel ==
    [rows |-> << <<1, 0, 1>>, <<1, 0, 1>>, <<1, 0, 1>>, <<1, 0, 1>> >>,
     heights |-> << <<1, 1, 3 * FxTenth>> >>]

\* the keys of a session: in the game session the player walks, jumps and
\* pauses; in the walk session the player walks and looks around; in the
\* jump session the player walks forward and jumps
KeysOf(t) ==
    IF t = "walk" THEN KeyChoices
    ELSE IF t = "jump" THEN {"W", "Space"}
    ELSE KeyChoices \cup {"Space", "Escape"}

\* the mouse turns the player by quarter turns in the walk session; in the
\* game session it only moves up and down (the pitch is not part of the
\* state)
TurnsOf(t) == IF t = "walk" THEN {1} ELSE {0}
SpeedChoices == {125}

Playing == tool \in {"game", "walk", "jump"} /\ miro.status = "loaded"

\* set_move_speed, called by the settings page before the game (the
\* walk and jump sessions keep the default speed)
SetMoveSpeed ==
    /\ Playing /\ tool = "game"
    /\ ~game.game_active /\ ~game.game_won
    /\ \E v \in SpeedChoices :
          game' = [game EXCEPT !.move_speed = (v * MOVE_SPEED) \div 100]
    /\ UNCHANGED <<mazeOnly, file, editorVars, extraVars>>

\* the window starts a game from the title page
StartGame ==
    /\ Playing
    /\ ~game.game_active
    /\ game' = StartGameOf(miro, game)
    /\ UNCHANGED <<mazeOnly, file, editorVars, extraVars>>

\* the window stops the game: return to title, or the countdown ran out
StopGame ==
    /\ Playing
    /\ game.game_active
    /\ game' = StopGameOf(game)
    /\ UNCHANGED <<mazeOnly, file, editorVars, extraVars>>

KeyPressEvent ==
    /\ Playing
    /\ game.game_active
    /\ \E key \in KeysOf(tool) : game' = KeyPressEventOf(game, key)
    /\ UNCHANGED <<mazeOnly, file, editorVars, extraVars>>

MouseMoveEvent ==
    /\ Playing
    /\ \E turn \in TurnsOf(tool) : game' = MouseMoveEventOf(game, turn)
    /\ UNCHANGED <<mazeOnly, file, editorVars, extraVars>>

MousePressEvent ==
    /\ Playing
    /\ game' = MousePressEventOf(game)
    /\ UNCHANGED <<mazeOnly, file, editorVars, extraVars>>

KeyReleaseEvent ==
    /\ Playing
    /\ \E key \in game.keys_pressed : game' = KeyReleaseEventOf(game, key)
    /\ UNCHANGED <<mazeOnly, file, editorVars, extraVars>>

\* the game timer fires
UpdateGame ==
    /\ Playing
    /\ game.timer_active
    /\ game' = UpdateGameOf(miro, game)
    /\ UNCHANGED <<mazeOnly, file, editorVars, extraVars>>

GameInit ==
    /\ tool = "game"
    /\ MazeIdle
    /\ file \in {LevelFile(l) : l \in Levels}
    /\ modeler = NewModeler
    /\ clicks = 0
    /\ saved = None
    /\ haeksim = NewHaeksim
    /\ legacy = NoLegacy

GameNext ==
    \/ LoadMaze \/ SetMoveSpeed \/ StartGame \/ StopGame
    \/ KeyPressEvent \/ KeyReleaseEvent \/ UpdateGame
    \/ MouseMoveEvent \/ MousePressEvent

SpecGame == GameInit /\ [][GameNext]_vars

\* the sessions without the settings page and without pause
StrollNext ==
    \/ LoadMaze \/ StartGame \/ StopGame
    \/ KeyPressEvent \/ KeyReleaseEvent \/ UpdateGame \/ MouseMoveEvent

\* a 3 x 3 maze as export_to_dat writes it with thickness 0.5: the file
\* has no grid section, the game builds its collision grid from the faces
ExportedCorridor ==
    MazeFileOf(WallMesh([y \in 0..2 |-> [x \in 0..2 |-> IF x = 1 THEN 0 ELSE 1]],
                        3, 3, FxHalf, FxOne))

WalkInit ==
    /\ tool = "walk"
    /\ MazeIdle
    /\ file \in {LevelFile(WalkLevel), ExportedCorridor}
    /\ modeler = NewModeler
    /\ clicks = 0
    /\ saved = None
    /\ haeksim = NewHaeksim
    /\ legacy = NoLegacy

SpecWalk == WalkInit /\ [][StrollNext]_vars

JumpInit ==
    /\ tool = "jump"
    /\ MazeIdle
    /\ file = LevelFile(JumpLevel)
    /\ modeler = NewModeler
    /\ clicks = 0
    /\ saved = None
    /\ haeksim = NewHaeksim
    /\ legacy = NoLegacy

SpecJump == JumpInit /\ [][StrollNext]_vars

\* the game timer is a QTimer: while it is active its timeout keeps coming
SpecJumpFair == JumpInit /\ [][StrollNext]_vars /\ WF_vars(UpdateGame)

-----------------------------------------------------------------------------
(* The game widget's GL resources *)

\* how many wall and floor images _load_textures finds: the assets are
\* missing, or there is one image of each kind
TextureCounts == {0, 1}
ThemeChoices == {"810-Gwan", "Developer"}

\* Qt calls initializeGL when the widget gets a GL context
InitializeGL ==
    /\ tool = "render"
    /\ miro.inits < MaxInits
    /\ \E found \in TextureCounts : miro' = InitializeGLOf(miro, found)
    /\ UNCHANGED <<tool, req, width, height, wall_thickness, wall_height,
                   grid, stack, mpc, pushed, file, editorVars, game, extraVars>>

SetTheme ==
    /\ tool = "render"
    /\ \E theme_name \in ThemeChoices : \E found \in TextureCounts :
          miro' = SetThemeOf(miro, theme_name, found)
    /\ UNCHANGED <<tool, req, width, height, wall_thickness, wall_height,
                   grid, stack, mpc, pushed, file, editorVars, game, extraVars>>

\* a level is loaded, also over a level loaded before
LoadLevel ==
    /\ tool = "render"
    /\ miro' = LoadMazeResult(miro, file)
    /\ UNCHANGED <<tool, req, width, height, wall_thickness, wall_height,
                   grid, stack, mpc, pushed, file, editorVars, game, extraVars>>

RenderInit ==
    /\ tool = "render"
    /\ MazeIdle
    /\ file \in {LevelFile(l) : l \in Levels}
    /\ modeler = NewModeler
    /\ clicks = 0
    /\ saved = None
    /\ haeksim = NewHaeksim
    /\ legacy = NoLegacy

RenderNext == InitializeGL \/ SetTheme \/ LoadLevel

SpecRender == RenderInit /\ [][RenderNext]_vars

-----------------------------------------------------------------------------
(* The game window's operations *)

windowRest == <<mazeOnly, file, editorVars, game, weather>>

\* a stage button of the title page
WindowStartGame ==
    /\ tool = "window"
    /\ window.stack_index = 0
    /\ window.game_session_id < MaxSessions
    /\ window' = WindowStartGameOf(window)
    /\ UNCHANGED windowRest

\* the toolbar's Return to Title, the end of the countdown, or a win
ReturnToTitle ==
    /\ tool = "window"
    /\ window' = ReturnToTitleOf(window)
    /\ UNCHANGED windowRest

\* the cheat menu's Pause Timer
CheatPauseTimer ==
    /\ tool = "window"
    /\ window.stack_index = 1
    /\ BagCardinality(window.pending) < MaxPending
    /\ window' = OnCheatPauseTimer(window)
    /\ UNCHANGED windowRest

\* _on_skill_activated, lines 917-930: the effect is drawn at random
SkillActivated ==
    /\ tool = "window"
    /\ window.game_active /\ ~window.game_paused
    /\ BagCardinality(window.pending) + 2 <= MaxPending
    /\ \E effect \in Effects : window' = ActivateSpecificSkill(window, effect)
    /\ UNCHANGED windowRest

\* a single-shot timer fires
TimerFires ==
    /\ tool = "window"
    /\ \E cb \in BagToSet(window.pending) : window' = RunCallback(window, cb)
    /\ UNCHANGED windowRest

WindowPauseGame ==
    /\ tool = "window"
    /\ window' = WindowPauseGameOf(window)
    /\ UNCHANGED windowRest

WindowResumeGame ==
    /\ tool = "window"
    /\ window' = WindowResumeGameOf(window)
    /\ UNCHANGED windowRest

WindowInit ==
    /\ tool = "window"
    /\ MazeIdle
    /\ file = <<>>
    /\ modeler = NewModeler
    /\ clicks = 0
    /\ saved = None
    /\ haeksim = NewHaeksim
    /\ legacy = NoLegacy

WindowNext ==
    \/ WindowStartGame \/ ReturnToTitle \/ CheatPauseTimer \/ SkillActivated
    \/ TimerFires \/ WindowPauseGame \/ WindowResumeGame

SpecWindow == WindowInit /\ [][WindowNext]_vars

-----------------------------------------------------------------------------
(* The weather system's operations *)

\* what np.random.uniform draws: the ends of [-extent, extent) and of
\* [-2, 15) for a new particle, the ends of [-0.5, 0.5) * delta_time for
\* the snow noise
DrawnPositions ==
    {<<0 - 12 * FxOne, 0 - 2 * FxOne, 12 * FxOne - 1>>,
     <<12 * FxOne - 1, 15 * FxOne - 1, 0 - 12 * FxOne>>}
DrawnNoise(ms) ==
    {<<0 - TimesDt(FxHalf, ms), TimesDt(FxHalf, ms) - 1>>,
     <<TimesDt(FxHalf, ms) - 1, 0>>}

\* the player positions update is called with: near the origin, and far
\* from it in both directions
PlayerChoices ==
    {<<0, PLAYER_HEIGHT, 0>>,
     <<100 * FxOne + 3 * FxTenth, PLAYER_HEIGHT, 0 - 50 * FxOne>>}

WeatherChoices == {"Clear", "Rain", "Snow"}

SetWeather ==
    /\ tool = "weather"
    /\ weather.updates < MaxUpdates
    /\ \E type_name \in WeatherChoices :
          \E rnd \in [1..MaxParticles -> DrawnPositions] :
             weather' = SetWeatherOf(weather, type_name, rnd)
    /\ UNCHANGED <<mazeOnly, file, editorVars, game, window>>

\* the call of update in a game tick
WeatherUpdate ==
    /\ tool = "weather"
    /\ weather.active
    /\ weather.updates < MaxUpdates
    /\ \E player_pos \in PlayerChoices :
          \E noise \in [1..MaxParticles -> DrawnNoise(GAME_TICK_MS)] :
             weather' = WeatherUpdateOf(weather, GAME_TICK_MS, player_pos, noise)
    /\ UNCHANGED <<mazeOnly, file, editorVars, game, window>>

WeatherInit ==
    /\ tool = "weather"
    /\ MazeIdle
    /\ file = <<>>
    /\ modeler = NewModeler
    /\ clicks = 0
    /\ saved = None
    /\ haeksim = NewHaeksim
    /\ legacy = NoLegacy

WeatherNext == SetWeather \/ WeatherUpdate

SpecWeather == WeatherInit /\ [][WeatherNext]_vars

-----------------------------------------------------------------------------

MazeInit ==
    /\ tool = "maze"
    /\ req \in (1..MaxReq) \X (1..MaxReq)
    /\ width = OddAdjust(req[1])
    /\ height = OddAdjust(req[2])
    /\ wall_thickness = FMax(FxTenth, FMin(FxOne, FxOne))
    /\ wall_height = FMax(FxTenth, FxOne)
    /\ grid = NewGrid(width, height)
    /\ stack = <<>>
    /\ mpc = "new"
    /\ pushed = [c \in (0..(width - 1)) \X (0..(height - 1)) |-> 0]
    /\ file = <<>>
    /\ miro = NewWidget
    /\ modeler = NewModeler
    /\ clicks = 0
    /\ saved = None
    /\ haeksim = NewHaeksim
    /\ legacy = NoLegacy
    /\ game = NewGame
    /\ weather = NewWeather
    /\ window = NewWindow

-----------------------------------------------------------------------------
(* Specifications *)

MazeNext == GenerateStart \/ DfsPush \/ DfsPop \/ ExportToDat \/ LoadMaze

Generate == GenerateStart \/ DfsPush \/ DfsPop

SpecMaze == MazeInit /\ [][MazeNext]_vars

\* generate() is a sequential loop: it always takes its next step
SpecMazeFair == MazeInit /\ [][MazeNext]_vars /\ WF_vars(Generate)

\* the two modelers
SorInit == ModelerInit \/ HaeksimInit

SorNext == ModelerNext \/ HaeksimNext

SpecSor == SorInit /\ [][SorNext]_vars

\* the three programs that produce a mesh: the maze generator and the two modelers
MeshInit == MazeInit \/ SorInit

MeshNext == MazeNext \/ SorNext

SpecMesh == MeshInit /\ [][MeshNext]_vars

Init == MazeInit \/ ModelerInit \/ HaeksimInit \/ FilesInit \/ GameInit \/ WeatherInit \/ RenderInit \/ WindowInit \/ WalkInit \/ JumpInit

Next == MazeNext \/ ModelerNext \/ HaeksimNext \/ FilesNext \/ GameNext \/ WeatherNext \/ RenderNext \/ WindowNext \/ StrollNext

Spec == Init /\ [][Next]_vars

-----------------------------------------------------------------------------
(* Claims about the maze generator *)

Cells == (0..(width - 1)) \X (0..(height - 1))
Passages == {c \in Cells : grid[c[2]][c[1]] = 0}

Adjacent(a, b) ==
    \/ a[1] = b[1] /\ (a[2] = b[2] + 1 \/ b[2] = a[2] + 1)
    \/ a[2] = b[2] /\ (a[1] = b[1] + 1 \/ b[1] = a[1] + 1)

\* the passages joined to S by a chain of adjacent passages
RECURSIVE ReachFrom(_, _)
ReachFrom(S, P) ==
    LET T == S \cup {p \in P : \E q \in S : Adjacent(p, q)}
    IN IF T = S THEN S ELSE ReachFrom(T, P)

\* unordered pairs of adjacent passages, each counted once
PassageEdges(P) ==
    {e \in P \X P : Adjacent(e[1], e[2])
                    /\ (e[1][1] < e[2][1] \/ e[1][2] < e[2][2])}

PassageDegree(c) == Cardinality({p \in Passages : Adjacent(p, c)})

Entrance == <<1, 0>>

\* C1: after generate() returns, the passage cells form one connected,
\* cycle-free graph under 4-adjacency (connected with exactly passages - 1
\* adjacent pairs), and every passage cell is reachable from the entrance
\* cell (row 0, column 1).
C1_MazePerfect ==
    mpc = "done" =>
        /\ Entrance \in Passages
        /\ ReachFrom({Entrance}, Passages) = Passages
        /\ Cardinality(PassageEdges(Passages)) = Cardinality(Passages) - 1

\* a generated 7 x 7 maze whose passages branch
C1_Witness ==
    /\ mpc = "done" /\ width = 7 /\ height = 7
    /\ \E c \in Passages : PassageDegree(c) >= 3

\* C2: width and height are odd, equal to the requested value when it is
\* odd and to the requested value plus 1 when it is even, and the grid keeps
\* exactly these dimensions while generate() runs and after it.
C2_OddDimensions ==
    /\ width % 2 = 1 /\ height % 2 = 1
    /\ (req[1] % 2 = 1 => width = req[1]) /\ (req[1] % 2 = 0 => width = req[1] + 1)
    /\ (req[2] % 2 = 1 => height = req[2]) /\ (req[2] % 2 = 0 => height = req[2] + 1)
    /\ DOMAIN grid = 0..(height - 1)
    /\ \A y \in DOMAIN grid : DOMAIN grid[y] = 0..(width - 1)

\* an even request whose maze has been generated
C2_Witness ==
    mpc = "done" /\ req[1] % 2 = 0 /\ req[2] % 2 = 1 /\ width = req[1] + 1

TopOpenings == {x \in 0..(width - 1) : grid[0][x] = 0}
BottomOpenings == {x \in 0..(width - 1) : grid[height - 1][x] = 0}

\* C3: after generate() returns, every border cell is a wall except exactly
\* one passage on the top row and exactly one on the bottom row, and the
\* cell directly inside each of the two openings is a passage.
C3_Border ==
    mpc = "done" =>
        /\ Cardinality(TopOpenings) = 1
        /\ Cardinality(BottomOpenings) = 1
        /\ \A y \in 0..(height - 1) : grid[y][0] = 1 /\ grid[y][width - 1] = 1
        /\ \A x \in TopOpenings : grid[1][x] = 0
        /\ \A x \in BottomOpenings : grid[height - 2][x] = 0

\* a generated maze with its two openings
C3_Witness ==
    /\ mpc = "done" /\ width >= 5 /\ height >= 5
    /\ grid[0][1] = 0 /\ grid[height - 1][width - 2] = 0

OddInterior ==
    {c \in Cells : c[1] % 2 = 1 /\ c[2] % 2 = 1}

\* C4: for width and height at least 3, generate() terminates: the loop
\* ends with an empty stack, and no cell is ever pushed more than once.
C4_Terminates ==
    /\ [](\A c \in DOMAIN pushed : pushed[c] <= 1)
    /\ (width >= 3 /\ height >= 3) ~> (mpc = "done" /\ stack = <<>>)

\* generate() has returned on a 7 x 7 grid after pushing every interior
\* odd-coordinate cell once
C4_Witness ==
    /\ mpc = "done" /\ stack = <<>> /\ width = 7 /\ height = 7
    /\ \A c \in OddInterior : pushed[c] = 1

-----------------------------------------------------------------------------
(* Claims about the maze file *)

\* C5: after export_to_dat and load_maze, the collision grid has the
\* dimensions and, cell for cell, the wall / passage pattern of the grid of
\* the Maze object.
C5_GridRoundTrip ==
    miro.status = "loaded" =>
        /\ miro.maze_width = width
        /\ miro.maze_height = height
        /\ \A c \in Cells : miro.maze_grid[c[2]][c[1]] = grid[c[2]][c[1]]

\* C6: the first line of the exported file is the single token 30 and the
\* second the single token 1, as test_export expects.
C6_HeaderAccepted ==
    file # <<>> =>
        /\ Len(file[1]) = 1 /\ file[1][1].k = "i" /\ file[1][1].v = 30
        /\ Len(file[2]) = 1 /\ file[2][1].k = "i" /\ file[2][1].v = 1

-----------------------------------------------------------------------------
(* Claims about the meshes *)

\* every index of every face of fs names one of n vertices
FacesValid(fs, n) ==
    \A i \in 1..Len(fs) : \A j \in 1..Len(fs[i]) : 0 <= fs[i][j] /\ fs[i][j] < n

\* the vertex count and the faces export_to_dat wrote to the file
ExportedVertexCount == file[3][1].v
ExportedFaces ==
    [i \in 1..file[4 + ExportedVertexCount][1].v |->
        Tail1(IntsOf(file[4 + ExportedVertexCount + i]))]

Generating(paths) == {k \in 1..Len(paths) : Len(paths[k].points) >= 2}

RECURSIVE SumOver(_, _)
SumOver(f, S) ==
    IF S = {} THEN 0
    ELSE LET k == CHOOSE x \in S : TRUE IN f[k] + SumOver(f, S \ {k})

\* the expected size of a SOR mesh: per path of n >= 2 points, s * n
\* vertices and s * (n - 1) quads when open, s * n quads when closed; the
\* faces of a path use the vertices of that path only
SorSizeOK(w) ==
    LET s == w.num_slices
        G == Generating(w.paths)
        nv == [k \in 1..Len(w.paths) |-> s * Len(w.paths[k].points)]
        nf == [k \in 1..Len(w.paths) |->
                  IF w.paths[k].closed THEN s * Len(w.paths[k].points)
                  ELSE s * (Len(w.paths[k].points) - 1)]
        voff(k) == SumOver(nv, {g \in G : g < k})
        foff(k) == SumOver(nf, {g \in G : g < k})
    IN /\ Len(w.sor_vertices) = SumOver(nv, G)
       /\ Len(w.sor_faces) = SumOver(nf, G)
       /\ \A i \in 1..Len(w.sor_faces) : Len(w.sor_faces[i]) = 4
       /\ \A k \in G : \A i \in (foff(k) + 1)..(foff(k) + nf[k]) :
             \A j \in 1..4 : /\ voff(k) <= w.sor_faces[i][j]
                             /\ w.sor_faces[i][j] < voff(k) + nv[k]

\* a step of the modeler that ran generate_model in SOR mode
ModelerGeneratesSor ==
    /\ modeler'.view_mode = "3D" /\ modeler'.modeling_mode = 0
    /\ \/ SetNumSlices \/ SetRotationAxis \/ SetModelingMode \/ SetSweepCaps
       \/ (SetViewMode /\ modeler.view_mode = "2D"
           /\ \E i \in 1..Len(modeler.paths) : modeler.paths[i].points # <<>>)

\* a step of the SOR modeler that ran generate_sor_model
HaeksimGeneratesSor ==
    /\ haeksim'.view_mode = "3D" /\ haeksim' # haeksim
    /\ \/ HSetNumSlices \/ HSetRotationAxis
       \/ (HSetViewMode
           /\ \E i \in 1..Len(haeksim.paths) : Len(haeksim.paths[i].points) > 1)

\* C8: after SOR generation with s slices, every path with n >= 2 points
\* has contributed exactly s * n vertices and exactly s * (n - 1) quads when
\* open or s * n quads when closed, and a path with fewer than 2 points has
\* contributed nothing (one open 3-point path with 4 slices: 12 vertices and
\* 8 quads).
C8_SorMeshSize ==
    [][/\ ModelerGeneratesSor => SorSizeOK(modeler')
       /\ HaeksimGeneratesSor => SorSizeOK(haeksim')]_vars

\* one open 3-point path with 4 slices: 12 vertices and 8 quads
C8_Witness ==
    /\ tool = "modeler" /\ modeler.status = "none"
    /\ modeler.view_mode = "3D" /\ modeler.modeling_mode = 0
    /\ modeler.num_slices = 4
    /\ Len(modeler.paths) = 1
    /\ Len(modeler.paths[1].points) = 3 /\ ~modeler.paths[1].closed
    /\ Len(modeler.sor_vertices) = 12 /\ Len(modeler.sor_faces) = 8

-----------------------------------------------------------------------------
(* Claims about the model file *)

\* C9: after save_model and load_model of the file it wrote, the model has
\* the vertex count, the faces (count and index list of each) and the header
\* parameters (slices, axis, render mode, modeling mode, sweep caps) of the
\* model that was saved.
C9_CodecRoundTrip ==
    (tool = "modeler" /\ file # <<>> /\ modeler.status # "none") =>
        /\ modeler.status = "loaded"
        /\ Len(modeler.sor_vertices) = Len(saved.v.sor_vertices)
        /\ modeler.sor_faces = saved.v.sor_faces
        /\ modeler.num_slices = saved.v.num_slices
        /\ modeler.rotation_axis = saved.v.rotation_axis
        /\ modeler.render_mode = saved.v.render_mode
        /\ modeler.modeling_mode = saved.v.modeling_mode
        /\ modeler.sweep_caps = saved.v.sweep_caps

\* a capped sweep with every setting changed from its default, loaded back
C9_Witness ==
    /\ tool = "modeler" /\ modeler.status = "loaded"
    /\ modeler.num_slices = 4 /\ modeler.rotation_axis = "X"
    /\ modeler.render_mode = 3 /\ modeler.modeling_mode = 1
    /\ modeler.sweep_caps
    /\ \E i \in 1..Len(modeler.sor_faces) : Len(modeler.sor_faces[i]) = 3

\* the paths a reader finds in the file written from d: one per record,
\* closed when its flag line says 1, with the record's number of points,
\* followed by the empty path the reader adds
PathsReadAs(paths, d) ==
    /\ Len(paths) = Len(d.paths) + 1
    /\ \A k \in 1..Len(d.paths) :
          /\ Len(paths[k].points) = d.paths[k].n
          /\ paths[k].closed = (d.paths[k].flag = "1")

\* C10: a reader accepts a path record with or without the closed-flag line
\* after its point count; without it the path is read as open with exactly
\* pointCount points, for every pointCount including 0, and the records that
\* follow (next path, vertex count) are read from the correct lines.
C10_OptionalClosedFlag ==
    (tool = "files" /\ legacy.defect = "none") =>
        /\ modeler.status # "none" =>
              /\ modeler.status = "loaded"
              /\ PathsReadAs(modeler.paths, legacy)
              /\ Len(modeler.sor_vertices) = legacy.nv
        /\ haeksim.status # "none" =>
              /\ haeksim.status = "loaded"
              /\ PathsReadAs(haeksim.paths, legacy)
              /\ Len(haeksim.sor_vertices) = legacy.nv
        /\ miro.status # "none" =>
              /\ miro.status = "loaded"
              /\ Len(miro.maze_vertices) = legacy.nv

-----------------------------------------------------------------------------
(* Claims about failing loads *)

\* C11: when a geometry file has a count that does not match the records
\* that follow it, or a face with a vertex index that is out of range,
\* load_model and load_maze end in the load-failed branch and not in the
\* load-completed outcome.
C11_DecodeFailure ==
    (tool = "files" /\ legacy.defect # "none") =>
        /\ modeler.status # "none" => modeler.status = "failed"
        /\ miro.status # "none" => miro.status = "failed"

\* C12: a load that fails leaves the state held before the call unmodified:
\* after load_model or load_maze has aborted on a malformed file, the
\* vertices, faces, paths, header parameters, floor height map and grid are
\* those of the widget before the call (here a widget just constructed).
C12_FailedLoadKeepsState ==
    tool = "files" =>
        /\ modeler.status = "failed" =>
              [modeler EXCEPT !.status = "none"] = NewModeler
        /\ miro.status = "failed" =>
              [miro EXCEPT !.status = "none"] = NewWidget

-----------------------------------------------------------------------------
(* Claims about the game *)

\* the game has been started
Started == tool = "game" /\ (game.game_active \/ game.game_won)

\* the positions one move away from the player
Candidates ==
    LET d == {0 - game.move_speed, 0, game.move_speed}
    IN {<<game.player_pos[1] + dx, game.player_pos[3] + dz>> : dx \in d, dz \in d}

\* floor((coord - gridMin) / gridScale) with gridScale 1.0
FloorCell(coord, grid_min) == (coord - grid_min) \div FxOne

\* the sample maps to a cell outside the grid or to a wall cell
SampleBlocked(check_x, check_z) ==
    LET gx == FloorCell(check_x, miro.grid_min_x)
        gz == FloorCell(check_z, miro.grid_min_z)
    IN IF 0 <= gz /\ gz < GridLen(miro.maze_grid)
          /\ 0 <= gx /\ gx < GridLen(miro.maze_grid[0])
       THEN miro.maze_grid[gz][gx] = 1
       ELSE TRUE

\* C13: with a loaded grid and no height map, _check_collision(x, z) is true
\* if and only if at least one of the 9 samples (offsets -PLAYER_RADIUS, 0,
\* +PLAYER_RADIUS in x and in z) maps by floor((coord - gridMin) / gridScale)
\* to a cell outside the grid or to a wall cell, samples less than one cell
\* before the grid's minimum included.
C13_CollisionSamples ==
    (Started /\ DOMAIN miro.floor_height_map = {}) =>
        \A c \in Candidates :
            CheckCollision(miro, game, c[1], c[2])
            <=> \E ox \in SampleOffsets, oz \in SampleOffsets :
                    SampleBlocked(c[1] + ox, c[2] + oz)

\* the player after the x step of a movement to new_x
AfterXStep(new_x) ==
    IF CheckCollision(miro, game, new_x, game.player_pos[3]) THEN game
    ELSE UpdateGroundState(miro, [game EXCEPT !.player_pos[1] = new_x])

\* C14: in one movement step the x displacement is applied if and only if
\* _check_collision(x + dx, z) is false, and then the z displacement is
\* applied if and only if _check_collision(x', z + dz) is false, x' being the
\* x after the first step; a blocked axis keeps its coordinate and does not
\* stop the move on the other axis.
C14_AxisIndependentMove ==
    [][(UpdateGame /\ game.keys_pressed # {}) =>
          LET new_x == game.player_pos[1] + MoveDx(game)
              new_z == game.player_pos[3] + MoveDz(game)
              mid == AfterXStep(new_x)
          IN /\ game'.player_pos[1] =
                   IF CheckCollision(miro, game, new_x, game.player_pos[3])
                   THEN game.player_pos[1] ELSE new_x
             /\ game'.player_pos[3] =
                   IF CheckCollision(miro, mid, game'.player_pos[1], new_z)
                   THEN game.player_pos[3] ELSE new_z]_vars

\* the player slides along the wall: x is blocked and z is free
C14_Witness ==
    /\ Started /\ game.game_active
    /\ game.keys_pressed = {"W", "A"}
    /\ game.player_pos[3] # miro.start_pos[2]
    /\ CheckCollision(miro, game, game.player_pos[1] + game.move_speed,
                      game.player_pos[3])
    /\ ~CheckCollision(miro, game, game.player_pos[1],
                       game.player_pos[3] + game.move_speed)

\* C15: at the end of every game tick in which the grounded flag is true,
\* the player's y is floorHeight(x, z) + PLAYER_HEIGHT for the player's tile
\* (0 for a tile that is not in the floor height map) and the vertical
\* velocity is 0.
C15_GroundedSnap ==
    [][(UpdateGame /\ game'.is_grounded) =>
          /\ game'.player_pos[2] =
                GetFloorHeightAt(miro, game'.player_pos[1], game'.player_pos[3])
                + PLAYER_HEIGHT
          /\ game'.player_velocity_y = 0]_vars

\* the player stands on the tile of height 0.4
C15_Witness ==
    /\ Started /\ game.game_active /\ game.is_grounded
    /\ GetFloorHeightAt(miro, game.player_pos[1], game.player_pos[3]) = 4 * FxTenth
    /\ game.player_pos[2] = 4 * FxTenth + PLAYER_HEIGHT

\* C16: the vertical velocity becomes JUMP_VELOCITY, with the grounded flag
\* cleared, only in a step that starts on the ground; a jump key pressed in
\* the air changes nothing; and the grounded flag comes back only by a
\* landing in a game tick, so there is a landing between any two jumps.
C16_JumpOnlyFromGround ==
    [][/\ (game'.player_velocity_y = JUMP_VELOCITY
           /\ game.player_velocity_y # JUMP_VELOCITY) =>
              (game.is_grounded /\ ~game'.is_grounded)
       /\ (game.game_active /\ ~game.is_grounded) =>
              KeyPressEventOf(game, "Space") = game
       /\ (game.game_active /\ ~game.is_grounded /\ game'.is_grounded) =>
              (UpdateGame /\ game'.player_velocity_y = 0)]_vars

\* a jump from the tile of height 0.4, which is reached only by a jump
C16_Witness ==
    /\ Started /\ ~game.is_grounded
    /\ game.player_velocity_y = JUMP_VELOCITY
    /\ game.player_pos[2] = 4 * FxTenth + PLAYER_HEIGHT

\* how much higher the floor at c is than the floor under the player
Rise(c) ==
    GetFloorHeightAt(miro, c[1], c[2])
    - GetFloorHeightAt(miro, game.player_pos[1], game.player_pos[3])

WallBlocked(c) ==
    \E ox \in SampleOffsets, oz \in SampleOffsets :
        SampleHits(miro, c[1] + ox, c[2] + oz)

C18_LandingOnCrossing ==
    [][(UpdateGame /\ ~game.is_grounded /\ game'.is_grounded) =>
          /\ game.player_pos[2] >=
                GetFloorHeightAt(miro, game'.player_pos[1], game'.player_pos[3])
                + PLAYER_HEIGHT
          /\ game'.player_pos[2] <= game.player_pos[2]]_vars

\* C19: _check_goal declares the win exactly when the squared planar
\* distance between the player and the goal is strictly less than the
\* square of goal_radius: with goal_radius 0.5 a distance of 0.4 wins and
\* distances of 0.5 and 0.6 do not.
C19_GoalDetection ==
    Started =>
        (game.game_won <=>
            DistanceSq(miro, game) < Milli(game.goal_radius) * Milli(game.goal_radius))

\* the game was won at distance 0.4 from the goal
C19_Witness ==
    /\ Started /\ game.game_won
    /\ game.goal_radius = FxHalf
    /\ DistanceSq(miro, game) = 400 * 400

-----------------------------------------------------------------------------
(* Claims about the normals *)

\* C20: after any sequence of generate model, load_model and clear_points
\* on the modeler widgets, the list of vertex normals has the same length
\* as the list of vertices.
C20_NormalsParallel ==
    /\ Len(modeler.sor_normals) = Len(modeler.sor_vertices)
    /\ Len(haeksim.sor_normals) = Len(haeksim.sor_vertices)

-----------------------------------------------------------------------------
(* Claims about the path editor *)

\* every closed path of the list has at least 2 points
ClosedPathsLong(paths) ==
    \A i \in 1..Len(paths) : paths[i].closed => Len(paths[i].points) >= 2

\* C21: after any sequence of add point, delete_point, close_current_path
\* and clear_points from the initial editor state, every path whose closed
\* flag is true has at least 2 points, and close_current_path on a path
\* with fewer than 2 points changes nothing.
C21_ClosedPathsHaveTwoPoints ==
    /\ (tool = "modeler" /\ modeler.status = "none") =>
          /\ ClosedPathsLong(modeler.paths)
          /\ Len(modeler.paths[modeler.current_path_idx + 1].points) < 2 =>
                CloseCurrentPathOf(modeler) = modeler
    /\ tool = "haeksim" =>
          /\ ClosedPathsLong(haeksim.paths)
          /\ Len(haeksim.paths[haeksim.current_path_idx + 1].points) < 2 =>
                HaeksimCloseCurrentPath(haeksim) = haeksim

\* C30: after any sequence of add point, delete_point, close_current_path,
\* clear_points and load_model on the modeler widget, current_path_idx is a
\* valid index into paths and the path it selects, which receives the next
\* added point, is not closed.
C30_CurrentPathOpen ==
    tool \in {"modeler", "files"} =>
        /\ 0 <= modeler.current_path_idx
        /\ modeler.current_path_idx < Len(modeler.paths)
        /\ ~modeler.paths[modeler.current_path_idx + 1].closed

-----------------------------------------------------------------------------
(* Claims about the weather *)

Dist(a, b) == IF a >= b THEN a - b ELSE b - a

\* C22: after every call of update while the weather is active, every
\* particle's x is within extent of the x of the player position passed
\* in, and its z within extent of the player's z, also when that position
\* is far from the one of the call before.
C22_WeatherWrapWindow ==
    (tool = "weather" /\ weather.active /\ weather.last_call = "update") =>
        \A i \in 1..MaxParticles :
            /\ Dist(weather.positions[i][1], weather.player[1]) <= weather.extent
            /\ Dist(weather.positions[i][3], weather.player[3]) <= weather.extent

\* the player moved far away and the particles came along
C22_Witness ==
    /\ tool = "weather" /\ weather.active /\ weather.last_call = "update"
    /\ weather.updates >= 2
    /\ weather.player[1] > 100 * FxOne
    /\ \A i \in 1..MaxParticles :
          Dist(weather.positions[i][1], weather.player[1]) <= weather.extent

-----------------------------------------------------------------------------
(* Claims about the GPU buffers *)

\* C23: in every sequence of load_maze, set_theme, initializeGL,
\* generate_model, load_model and clear_points, mesh buffers are created only
\* after all mesh buffers created before were deleted: the buffers that
\* exist are exactly the ones whose handles the widget holds, none was
\* overwritten or dropped while allocated.
C23_CleanupBeforeRecreate ==
    /\ miro.gl_buffers = BuffersPerBatch * miro.batches
    /\ modeler.gl_buffers = modeler.vbo

-----------------------------------------------------------------------------
(* Claims about the exported walls *)

\* thicknesses of the range 0.1 .. 1.0: both ends, the default 0.5, and
\* two values whose inset is not a multiple of 0.1
ThicknessSamples ==
    {FxTenth, 3333333, FxHalf, 8 * FxTenth + FxTenth \div 2, FxOne}

\* the boxes of cell a and of cell b meet at x = edge with the same z range,
\* which is the inset and the thickness of the wall
MeetAtX(a, b, edge, lo, thickness) ==
    \E p \in 1..Len(a), q \in 1..Len(b) :
        /\ a[p][2] = edge /\ b[q][1] = edge
        /\ a[p][3] = lo /\ b[q][3] = lo
        /\ a[p][4] = lo + thickness /\ b[q][4] = lo + thickness

MeetAtZ(a, b, edge, lo, thickness) ==
    \E p \in 1..Len(a), q \in 1..Len(b) :
        /\ a[p][4] = edge /\ b[q][3] = edge
        /\ a[p][1] = lo /\ b[q][1] = lo
        /\ a[p][2] = lo + thickness /\ b[q][2] = lo + thickness

NoGaps(g, w, h, thickness) ==
    LET inset == (FxOne - thickness) \div 2
        left(x) == x * FxOne - ((w * FxOne) \div 2)
        top(y) == y * FxOne - ((h * FxOne) \div 2)
    IN /\ \A y \in 0..(h - 1) : \A x \in 0..(w - 2) :
            (g[y][x] = 1 /\ g[y][x + 1] = 1) =>
                MeetAtX(CellBoxes(g, w, h, x, y, thickness),
                        CellBoxes(g, w, h, x + 1, y, thickness),
                        left(x + 1), top(y) + inset, thickness)
       /\ \A y \in 0..(h - 2) : \A x \in 0..(w - 1) :
            (g[y][x] = 1 /\ g[y + 1][x] = 1) =>
                MeetAtZ(CellBoxes(g, w, h, x, y, thickness),
                        CellBoxes(g, w, h, x, y + 1, thickness),
                        top(y + 1), left(x) + inset, thickness)

\* C24: for every pair of 4-adjacent wall cells of the generated grid and
\* every wall thickness in 0.1 .. 1.0, each of the two cells emits a box that
\* reaches the edge they share, and the two boxes have the same cross-section
\* there: they start at the inset and are one thickness wide.
C24_NoGapsBetweenWalls ==
    (tool = "maze" /\ mpc = "done") =>
        \A t \in ThicknessSamples :
            NoGaps(grid, width, height, ExportThickness(Some(t), wall_thickness))

\* an exported maze with a straight wall cell next to a corner cell
C24_Witness ==
    /\ tool = "maze" /\ mpc = "done" /\ file # <<>>
    /\ \E y \in 0..(height - 1) : \E x \in 0..(width - 2) :
          /\ grid[y][x] = 1 /\ grid[y][x + 1] = 1
          /\ Len(CellBoxes(grid, width, height, x, y, FxHalf)) = 3
          /\ Len(CellBoxes(grid, width, height, x + 1, y, FxHalf)) = 1

-----------------------------------------------------------------------------
(* Claims about the game window *)

\* what a stale callback must leave alone: everything but the list of
\* waiting callbacks
Session(w) == [w EXCEPT !.pending = EmptyBag]

\* C25: a skill-expiry or timer-resume callback scheduled with
\* QTimer.singleShot in one game session changes nothing once _start_game
\* has begun a later session: the countdown timer, is_cheat_paused, the
\* cheat flags and the active skill count stay as they are.
C25_StaleCallbacksChangeNothing ==
    [][(tool = "window" /\ TimerFires) =>
          \A cb \in BagToSet(window.pending) :
              (cb.sid # window.game_session_id
               /\ window' = RunCallback(window, cb))
              => Session(window') = Session(window)]_vars

-----------------------------------------------------------------------------
(* Claims about the game's life cycle *)

\* C26: game_won is emitted only after stop_game has set game_active to
\* false and stopped the tick timer, and between two calls of start_game it
\* is emitted at most once, whatever ticks follow.
C26_WinReportedOnce ==
    tool = "game" =>
        /\ game.emitted <= 1
        /\ game.emitted = 1 => (~game.game_active /\ ~game.timer_active)

\* the game has been won: the signal was emitted and the game is stopped
C26_Witness ==
    /\ tool = "game" /\ game.emitted = 1 /\ game.game_won
    /\ ~game.game_active

Frozen(g) == <<g.player_pos, g.player_velocity_y, g.is_grounded>>

\* C27: between pause_game and the next resume_game or stop_game, no event
\* (key press, key release, mouse move, timer) changes the player's
\* position, vertical velocity or grounded flag.
C27_PauseFreezesPlayer ==
    [][(tool = "game" /\ game.game_paused /\ game'.game_paused) =>
          Frozen(game') = Frozen(game)]_vars

\* C28: while the game keeps ticking, a player who is airborne (after a jump
\* or after stepping off a higher tile) is eventually grounded again: the
\* player lands, unless the ticking stops first (pause, stop or win).
C28_JumpEndsInLanding ==
    (tool = "jump" /\ game.game_active /\ ~game.is_grounded)
        ~> (game.is_grounded \/ ~game.timer_active)

\* the player has jumped onto the raised tile, has left it and has landed
\* on the ground behind it
C28_Witness ==
    /\ tool = "jump" /\ game.game_active /\ game.is_grounded
    /\ GetFloorHeightAt(miro, game.player_pos[1], game.player_pos[3]) = 0
    /\ FloorCell(game.player_pos[3], miro.grid_min_z) = 2

\* the game runs or has just been won
InGame == tool \in {"game", "walk", "jump"} /\ (game.game_active \/ game.game_won)

\* the point lies in a wall cell of the collision grid
InWallCell(x, z) ==
    LET gx == FloorCell(x, miro.grid_min_x)
        gz == FloorCell(z, miro.grid_min_z)
    IN /\ 0 <= gz /\ gz < GridLen(miro.maze_grid)
       /\ 0 <= gx /\ gx < GridLen(miro.maze_grid[0])
       /\ miro.maze_grid[gz][gx] = 1

====
